---- MODULE Spec2Model ----
(***************************************************************************)
(* Model of beancounter's audit pipeline: the Accounter (address discovery *)
(* with gap extension, transaction fetch, height filter, balance) and the  *)
(* request/response backends that feed it (fixture backend, btcd backend). *)
(***************************************************************************)
EXTENDS Bags, FiniteSets, Integers, Naturals, Sequences, TLC

\* ------------------------------------------------------------------------
\* Bounds of the model
\* ------------------------------------------------------------------------
MaxLookahead == 2
MaxUsedIndex == 2
MaxUsed == 2
MaxUsedFair == 1
MaxVin == 2
NumHashes == 3
NumPeers == 2
MaxRequests == 2
MaxFailures == 1
ChainTip == 27
MaxTarget == 8
MaxFlag == 4
MaxHistory == 6
PipelineScale == 500
MaxRpcs == 3
MaxConnecting == 2

\* ------------------------------------------------------------------------
\* Program constants
\* ------------------------------------------------------------------------
fixtureAddrChanSize == 10
fixtureTxChanSize == 1000
addrRequestsChanSize == 100
maxTxsPerAddr == 1000
concurrency == 100
maxPeers == 100
minConfirmations == 6

VARIABLES
    \* configuration of the run
    lookahead, blockHeight, singleAddress, kind,
    \* backend data: FixtureBackend.addrIndex / txIndex, or the btcd node
    addrIndex, txIndex,
    \* Accounter fields
    lastAddresses, derivedAddrCount, processedAddrCount,
    seenTxCount, processedTxCount, addresses, transactions,
    \* locals of the sendWork goroutine
    indexes, swChange, swLast, swPc,
    \* backend channels and workers
    addrRequests, addrResponses, txRequests, txResponses, held, doneCh, stopped,
    cachedTransactions,
    \* the goroutine running ComputeBalance
    pc, result,
    \* history of the backend's traffic (observation only)
    addrAccepted, addrAnswered, txAccepted, txAnswered,
    \* RecorderBackend: the wrapped backend's response channels, the recorder's
    \* indexes, its loop, the file it wrote, and what the recorded run returned
    innerAddrResponses, innerTxResponses, rbAddrIndex, rbTxIndex, rbStopped,
    file, first,
    \* ElectrumBackend: how each peer behaves, the pool (nodes), the blacklist,
    \* the goroutines running processRequests(node), the addNode goroutines not
    \* run yet, the peer-discovery goroutine, the tx-hash -> height cache
    peerKind, nodes, blacklistedNodes, ebWorkers, toAdd, discovery, ebTransactions,
    \* block requests and responses, and their history (observation only)
    blockRequests, blockResponses, blockAccepted, blockAnswered,
    \* history of the pool (observation only): connections opened per peer,
    \* peers that failed a request while pooled, requests put back on a queue
    connects, failed, requeued,
    \* the chain's block header times, and the locals of Blockfinder.Search
    timestamps, target, min, max, minMedian, maxMedian,
    \* doComputeBalance: the --block-height flag and the backend's chain height
    computeBalanceBlockHeight, chainHeight,
    \* Accounter.countMu (who holds it), and the locals of recvWork while it is
    \* inside its address case: the response, and the hashes still to request
    countMu, rwResp, rwTodo,
    \* by how much the model divides the capacity of the transaction channels
    scale,
    \* ElectrumBackend: the peers that a server lists in its answer to
    \* server.peers.subscribe
    announced,
    \* the addNode goroutines that passed the existsGood / existsBad test and
    \* are in their handshake, by ident
    connecting,
    \* one electrum.Node and its transport: Node.nextId, the state of the
    \* connection, and the requests made on it (observation only)
    nextId, conn, rpcLog

cfgVars == <<lookahead, blockHeight, singleAddress, kind, addrIndex, txIndex>>
accVars == <<lastAddresses, derivedAddrCount, processedAddrCount,
             seenTxCount, processedTxCount, addresses, transactions>>
swVars == <<indexes, swChange, swLast, swPc>>
chanVars == <<addrRequests, addrResponses, txRequests, txResponses, held, doneCh, stopped>>
histVars == <<addrAccepted, addrAnswered, txAccepted, txAnswered>>
recVars == <<innerAddrResponses, innerTxResponses, rbAddrIndex, rbTxIndex, rbStopped,
             file, first>>
poolVars == <<peerKind, announced, nodes, blacklistedNodes, ebWorkers, toAdd, discovery>>
blockVars == <<blockRequests, blockResponses, blockAccepted, blockAnswered>>
ebHistVars == <<connects, failed, requeued>>
bfVars == <<timestamps, target, min, max, minMedian, maxMedian>>
mainVars == <<computeBalanceBlockHeight, chainHeight>>
lockVars == <<countMu, rwResp, rwTodo>>
capVars == <<scale>>
rpcVars == <<nextId, conn, rpcLog>>
ebVars == <<poolVars, ebTransactions, blockVars, ebHistVars, bfVars, mainVars, connecting,
           rpcVars>>
vars == <<ebVars, cfgVars, accVars, swVars, chanVars, cachedTransactions, pc, result, histVars,
          recVars, lockVars, capVars>>

\* ------------------------------------------------------------------------
\* Helpers
\* ------------------------------------------------------------------------
Max(a, b) == IF a >= b THEN a ELSE b

Hashes == 1..NumHashes

RECURSIVE SetSum(_, _)
SetSum(S, f) == IF S = {} THEN 0
                ELSE LET x == CHOOSE y \in S : TRUE
                     IN f[x] + SetSum(S \ {x}, f)

\* deriver.Address: the derivation position and its textual / script forms
NewAddress(c, i) == [change |-> c, index |-> i]
String(a) == <<"addr", a.change, a.index>>
Script(a) == <<"script", a.change, a.index>>

\* a deriver that ignores the single-address mode
DeriveByPosition(c, i) == NewAddress(c, i)

\* AddressDeriver.Derive: in single-address mode every call returns the one
\* configured address with change 0 and index 0
Derive(c, i) == IF singleAddress THEN NewAddress(0, 0) ELSE NewAddress(c, i)

\* AddrResponse.HasTransactions
HasTransactions(resp) == Len(resp.TxHashes) > 0


\* ------------------------------------------------------------------------
\* The data a backend serves (a recorded fixture file, or the btcd node's
\* chain): which addresses have history and the transactions behind it
\* ------------------------------------------------------------------------
H(n) == (n % NumHashes) + 1

\* tx_hashes recorded for the address at (c, i)
HistOf(c, i) == IF c = 0
                THEN (IF i % 2 = 1 THEN <<H(i - 1), H(i)>> ELSE <<H(i)>>)
                ELSE <<H(i + 1)>>

\* the raw transaction behind hash h, as the external parser reads it:
\* inputs (previous outpoint) and outputs (value, pkScript)
RawTx(h) ==
    [vin  |-> IF h = 1 THEN <<>> ELSE <<[prevHash |-> h - 1, index |-> 0]>>,
     vout |-> <<[value |-> 2 * h + 1, pkScript |-> Script(NewAddress(0, h - 1))],
                [value |-> h, pkScript |-> Script(NewAddress(h % 2, h))]>>]

\* backend.TxResponse for hash h; transaction h was mined at height h
ChainTx(h) == [Hash |-> h, Height |-> h, Hex |-> RawTx(h)]

\* backend.AddrResponse
AddrResponse(a, hs) == [Address |-> a, TxHashes |-> hs]

\* FixtureBackend.loadFromFile: addrIndex keyed by the address string
LoadAddrIndex(used) ==
    [s \in {String(NewAddress(c, i)) : <<c, i>> \in used} |->
        LET ci == CHOOSE p \in used : String(NewAddress(p[1], p[2])) = s
        IN AddrResponse(NewAddress(ci[1], ci[2]), HistOf(ci[1], ci[2]))]

\* FixtureBackend.loadFromFile: txIndex keyed by hash
LoadTxIndex(known) == [h \in known |-> ChainTx(h)]

\* every hash a served history lists
ListedHashes == UNION {{addrIndex[s].TxHashes[k] : k \in 1..Len(addrIndex[s].TxHashes)}
                        : s \in DOMAIN addrIndex}

\* ------------------------------------------------------------------------
\* Channels of the backend in use
\* ------------------------------------------------------------------------
AddrChanSize ==
    IF kind = "fixture" THEN fixtureAddrChanSize
    ELSE IF kind = "electrum" THEN 2 * maxPeers
    ELSE addrRequestsChanSize
\* make(chan string, 1000) in the fixture, make(chan string, 2*maxTxsPerAddr)
\* in the btcd backend; the model divides both by scale (1 unless said)
TxChanSize ==
    (IF kind = "fixture" THEN fixtureTxChanSize
     ELSE IF kind = "electrum" THEN 2 * maxPeers
     ELSE 2 * maxTxsPerAddr) \div scale
\* goroutines running processRequests
Workers == IF kind = "fixture" THEN 1 ELSE concurrency

\* the Accounter's goroutines run from ComputeBalance on, until it returns
\* or the process aborts
Running == pc \notin {"done", "panic", "doComputeBalance"}

\* the backend is a BtcdBackend, on its own or wrapped by a RecorderBackend
Btcd == kind \in {"btcd", "btcd-recorder"}
Recording == kind = "btcd-recorder"

\* ------------------------------------------------------------------------
\* Accounter.New and the start of ComputeBalance
\* ------------------------------------------------------------------------
InitAccounter ==
    /\ lastAddresses = [c \in 0..1 |-> lookahead]
    /\ derivedAddrCount = 0
    /\ processedAddrCount = 0
    /\ seenTxCount = 0
    /\ processedTxCount = 0
    /\ addresses = <<>>
    /\ transactions = <<>>

\* sendWork starts with stream 0 and has read its frontier
InitSendWork ==
    /\ indexes = [c \in 0..1 |-> 0]
    /\ swChange = 0
    /\ swLast = lookahead
    /\ swPc = "loop"

\* no fixture file written yet, no recorded run finished yet
NoFile == [written |-> FALSE, Addresses |-> {}, Transactions |-> {}]
NoRun == [replayed |-> FALSE, frontier |-> [c \in 0..1 |-> 0], balance |-> 0]

\* recvWork is not inside its address case
NoResponse == [Address |-> [change |-> 0, index |-> 0], TxHashes |-> <<>>]

\* a run that talks to no electrum server through a Node of its own
NoRpc ==
    /\ nextId = 0
    /\ conn = "none"
    /\ rpcLog = <<>>

InitBackend ==
    /\ addrRequests = <<>>
    /\ addrResponses = <<>>
    /\ txRequests = <<>>
    /\ txResponses = <<>>
    /\ held = EmptyBag
    /\ doneCh = FALSE
    /\ stopped = FALSE
    /\ cachedTransactions = {}
    /\ addrAccepted = EmptyBag
    /\ addrAnswered = EmptyBag
    /\ txAccepted = EmptyBag
    /\ txAnswered = EmptyBag
    /\ innerAddrResponses = <<>>
    /\ innerTxResponses = <<>>
    /\ rbAddrIndex = <<>>
    /\ rbTxIndex = <<>>
    /\ rbStopped = FALSE
    /\ file = NoFile
    /\ first = NoRun
    /\ countMu = "free"
    /\ rwResp = NoResponse
    /\ rwTodo = <<>>
    /\ connecting = EmptyBag

\* the peers of the model, and a run that uses no ElectrumBackend
Peers == 1..NumPeers

NoElectrum ==
    /\ peerKind = [p \in Peers |-> "good"]
    /\ announced = Peers
    /\ nodes = {}
    /\ blacklistedNodes = {}
    /\ ebWorkers = EmptyBag
    /\ toAdd = {}
    /\ discovery = "stopped"
    /\ ebTransactions = <<>>
    /\ blockRequests = <<>>
    /\ blockResponses = <<>>
    /\ blockAccepted = EmptyBag
    /\ blockAnswered = EmptyBag
    /\ connects = EmptyBag
    /\ failed = {}
    /\ requeued = EmptyBag

\* a run that searches no block: every block's time is its height
NoSearch ==
    /\ timestamps = [h \in 0..(NumHashes - 1) |-> h]
    /\ target = 0
    /\ min = 0
    /\ max = 0
    /\ minMedian = 0
    /\ maxMedian = 0

\* the wallets of the model: the receive addresses in u0 were paid, and the
\* payment to receive address 1 sent its change to change address 0
UsedBy(u0) == {<<0, i>> : i \in u0} \cup (IF 1 \in u0 THEN {<<1, 0>>} ELSE {})

InitKinds(kinds, maxUsed) ==
    /\ lookahead \in 1..MaxLookahead
    /\ blockHeight = NumHashes - 1
    /\ kind \in kinds
    /\ singleAddress \in BOOLEAN
    /\ \E u0 \in SUBSET (0..MaxUsedIndex) :
          /\ Cardinality(u0) <= maxUsed
          /\ singleAddress => u0 \subseteq {0}
          /\ addrIndex = LoadAddrIndex(UsedBy(u0))
    /\ \E missing \in {{}, {2}} :
          /\ kind # "fixture" => missing = {}
          /\ txIndex = LoadTxIndex(Hashes \ missing)
    /\ InitAccounter
    /\ InitSendWork
    /\ InitBackend
    /\ scale = 1
    /\ NoRpc
    /\ NoElectrum
    /\ NoSearch
    /\ computeBalanceBlockHeight = blockHeight
    /\ chainHeight = blockHeight + minConfirmations - 1
    /\ pc = "recvWork"
    /\ result = 0

InitWith(maxUsed) == InitKinds({"fixture", "btcd"}, maxUsed)

Init == InitWith(MaxUsed)

\* ------------------------------------------------------------------------
\* Accounter.sendWork
\* ------------------------------------------------------------------------
\* loop test true: derive the address and count it
SendDerive ==
    /\ Running /\ swPc = "loop" /\ countMu = "free"
    /\ indexes[swChange] < swLast
    /\ derivedAddrCount' = derivedAddrCount + 1
    /\ swPc' = "send"
    /\ UNCHANGED <<cachedTransactions, cfgVars, lastAddresses, processedAddrCount, seenTxCount,
                   processedTxCount, addresses, transactions,
                   indexes, swChange, swLast, chanVars, pc, result, histVars>>
    /\ UNCHANGED recVars
    /\ UNCHANGED ebVars
    /\ UNCHANGED lockVars
    /\ UNCHANGED capVars

\* a send loop that requests the address and leaves its index where it is
SendRequestSameIndex ==
    /\ Running /\ swPc = "send"
    /\ Len(addrRequests) < AddrChanSize
    /\ LET addr == Derive(swChange, indexes[swChange]) IN
          /\ addrRequests' = Append(addrRequests, addr)
          /\ addrAccepted' = addrAccepted (+) SetToBag({String(addr)})
    /\ indexes' = indexes
    /\ swPc' = "loop"
    /\ UNCHANGED <<cachedTransactions, cfgVars, accVars, swChange, swLast, addrResponses, txRequests,
                   txResponses, held, doneCh, stopped, pc, result,
                   addrAnswered, txAccepted, txAnswered>>
    /\ UNCHANGED recVars
    /\ UNCHANGED ebVars
    /\ UNCHANGED lockVars
    /\ UNCHANGED capVars

\* a.backend.AddrRequest(addr); indexes[change]++
SendRequest ==
    /\ Running /\ swPc = "send"
    /\ Len(addrRequests) < AddrChanSize
    /\ LET addr == Derive(swChange, indexes[swChange]) IN
          /\ addrRequests' = Append(addrRequests, addr)
          /\ addrAccepted' = addrAccepted (+) SetToBag({String(addr)})
    /\ indexes' = [indexes EXCEPT ![swChange] = @ + 1]
    /\ swPc' = "loop"
    /\ UNCHANGED <<cachedTransactions, cfgVars, accVars, swChange, swLast, addrResponses, txRequests,
                   txResponses, held, doneCh, stopped, pc, result,
                   addrAnswered, txAccepted, txAnswered>>
    /\ UNCHANGED recVars
    /\ UNCHANGED ebVars
    /\ UNCHANGED lockVars
    /\ UNCHANGED capVars

\* loop test false: go on to the other stream (after the sleep, when both
\* are done) and read its frontier: lastAddr := a.getLastAddress(change)
SendNext ==
    /\ Running /\ swPc = "loop" /\ countMu = "free"
    /\ indexes[swChange] >= swLast
    /\ swChange' = 1 - swChange
    /\ swLast' = lastAddresses[1 - swChange]
    /\ UNCHANGED <<cachedTransactions, cfgVars, accVars, indexes, swPc, chanVars, pc, result, histVars>>
    /\ UNCHANGED recVars
    /\ UNCHANGED ebVars
    /\ UNCHANGED lockVars
    /\ UNCHANGED capVars

\* ------------------------------------------------------------------------
\* Backends: processRequests and its handlers.  A worker goroutine that has
\* taken a request holds its response (in held) until the send on the
\* response channel goes through.
\* ------------------------------------------------------------------------
WorkerFree == BagCardinality(held) < Workers

\* a lookup that answers an unknown address under another address
AddrLookupOther(addr) ==
    IF String(addr) \in DOMAIN addrIndex
    THEN addrIndex[String(addr)]
    ELSE AddrResponse(NewAddress(0, 0), <<>>)

\* FixtureBackend.processAddrRequest / BtcdBackend.processAddrRequest: the
\* recorded response, or an empty history for an address never seen
AddrLookup(addr) ==
    IF String(addr) \in DOMAIN addrIndex
    THEN addrIndex[String(addr)]
    ELSE AddrResponse(addr, <<>>)

\* BtcdBackend.cacheTxs: caches the transactions of a search result, and
\* returns at the first one that is cached already
RECURSIVE cacheTxs(_, _)
cacheTxs(cache, txs) ==
    IF txs = <<>> THEN cache
    ELSE IF Head(txs) \in cache THEN cache
    ELSE cacheTxs(cache \cup {Head(txs)}, Tail(txs))

ProcessAddrRequest ==
    /\ Running /\ ~stopped /\ WorkerFree
    /\ addrRequests # <<>>
    /\ addrRequests' = Tail(addrRequests)
    /\ held' = held (+) SetToBag({[type |-> "addr", resp |-> AddrLookup(Head(addrRequests))]})
    /\ cachedTransactions' =
          IF Btcd
          THEN cacheTxs(cachedTransactions, AddrLookup(Head(addrRequests)).TxHashes)
          ELSE cachedTransactions
    /\ UNCHANGED <<cfgVars, accVars, swVars, addrResponses, txRequests, txResponses,
                   doneCh, stopped, pc, result, histVars>>
    /\ UNCHANGED recVars
    /\ UNCHANGED ebVars
    /\ UNCHANGED lockVars
    /\ UNCHANGED capVars

\* FixtureBackend.processTxRequest: an unknown hash is dropped;
\* BtcdBackend.processTxRequest: an unknown hash is an error, and
\* processRequests panics on it
\* a lookup that answers every request with the first transaction it has
TxLookupFirst(h) ==
    IF DOMAIN txIndex = {} THEN {} ELSE {txIndex[CHOOSE x \in DOMAIN txIndex : TRUE]}

\* a lookup that answers an unknown hash with an empty, unmined transaction,
\* the way an unknown address is answered with an empty history
TxLookupUnmined(h) ==
    IF h \in DOMAIN txIndex THEN {txIndex[h]}
    ELSE {[Hash |-> h, Height |-> 0, Hex |-> [vin |-> <<>>, vout |-> <<>>]]}

\* the responses to TxRequest(h): the transaction, or none when the hash is
\* unknown
TxLookup(h) == IF h \in DOMAIN txIndex THEN {txIndex[h]} ELSE {}

ProcessTxRequest ==
    /\ Running /\ ~stopped /\ WorkerFree
    /\ txRequests # <<>>
    /\ txRequests' = Tail(txRequests)
    /\ LET h == Head(txRequests) IN
          /\ held' = held (+) SetToBag({[type |-> "tx", resp |-> r] : r \in TxLookup(h)})
          /\ pc' = IF TxLookup(h) = {} /\ Btcd THEN "panic" ELSE pc
    /\ UNCHANGED <<cachedTransactions, cfgVars, accVars, swVars, addrRequests, addrResponses, txResponses,
                   doneCh, stopped, result, histVars>>
    /\ UNCHANGED recVars
    /\ UNCHANGED ebVars
    /\ UNCHANGED lockVars
    /\ UNCHANGED capVars

\* fb.addrResponses <- &resp
WorkerSendAddr ==
    /\ Running
    /\ Len(IF Recording THEN innerAddrResponses ELSE addrResponses) < AddrChanSize
    /\ \E r \in BagToSet(held) :
          /\ r.type = "addr"
          /\ held' = held (-) SetToBag({r})
          /\ IF Recording
             THEN /\ innerAddrResponses' = Append(innerAddrResponses, r.resp)
                  /\ addrResponses' = addrResponses
             ELSE /\ addrResponses' = Append(addrResponses, r.resp)
                  /\ innerAddrResponses' = innerAddrResponses
          /\ addrAnswered' = addrAnswered (+) SetToBag({String(r.resp.Address)})
    /\ UNCHANGED <<cachedTransactions, cfgVars, accVars, swVars, addrRequests, txRequests, txResponses,
                   doneCh, stopped, pc, result, addrAccepted, txAccepted, txAnswered>>
    /\ UNCHANGED <<innerTxResponses, rbAddrIndex, rbTxIndex, rbStopped, file, first>>
    /\ UNCHANGED ebVars
    /\ UNCHANGED lockVars
    /\ UNCHANGED capVars

\* fb.txResponses <- &resp
WorkerSendTx ==
    /\ Running
    /\ Len(IF Recording THEN innerTxResponses ELSE txResponses) < TxChanSize
    /\ \E r \in BagToSet(held) :
          /\ r.type = "tx"
          /\ held' = held (-) SetToBag({r})
          /\ IF Recording
             THEN /\ innerTxResponses' = Append(innerTxResponses, r.resp)
                  /\ txResponses' = txResponses
             ELSE /\ txResponses' = Append(txResponses, r.resp)
                  /\ innerTxResponses' = innerTxResponses
          /\ txAnswered' = txAnswered (+) SetToBag({r.resp.Hash})
    /\ UNCHANGED <<cachedTransactions, cfgVars, accVars, swVars, addrRequests, addrResponses, txRequests,
                   doneCh, stopped, pc, result, addrAccepted, addrAnswered, txAccepted>>
    /\ UNCHANGED <<innerAddrResponses, rbAddrIndex, rbTxIndex, rbStopped, file, first>>
    /\ UNCHANGED ebVars
    /\ UNCHANGED lockVars
    /\ UNCHANGED capVars

\* FixtureBackend.processRequests also receives from its own response
\* channels and sends what it received back: the head moves to the tail
EchoAddr ==
    /\ Running /\ ~stopped /\ kind = "fixture" /\ WorkerFree
    /\ Len(addrResponses) > 1
    /\ addrResponses' = Append(Tail(addrResponses), Head(addrResponses))
    /\ UNCHANGED <<cachedTransactions, cfgVars, accVars, swVars, addrRequests, txRequests, txResponses,
                   held, doneCh, stopped, pc, result, histVars>>
    /\ UNCHANGED recVars
    /\ UNCHANGED ebVars
    /\ UNCHANGED lockVars
    /\ UNCHANGED capVars

EchoTx ==
    /\ Running /\ ~stopped /\ kind = "fixture" /\ WorkerFree
    /\ Len(txResponses) > 1
    /\ txResponses' = Append(Tail(txResponses), Head(txResponses))
    /\ UNCHANGED <<cachedTransactions, cfgVars, accVars, swVars, addrRequests, addrResponses, txRequests,
                   held, doneCh, stopped, pc, result, histVars>>
    /\ UNCHANGED recVars
    /\ UNCHANGED ebVars
    /\ UNCHANGED lockVars
    /\ UNCHANGED capVars

\* case <-fb.doneCh: return.  (BtcdBackend's `break` leaves only the select,
\* so its workers keep running.)
FixtureStop ==
    /\ ~stopped /\ kind = "fixture" /\ WorkerFree
    /\ doneCh
    /\ stopped' = TRUE
    /\ UNCHANGED <<cachedTransactions, cfgVars, accVars, swVars, addrRequests, addrResponses, txRequests,
                   txResponses, held, doneCh, pc, result, histVars>>
    /\ UNCHANGED recVars
    /\ UNCHANGED ebVars
    /\ UNCHANGED lockVars
    /\ UNCHANGED capVars

\* BtcdBackend.processRequests, case <-b.doneCh: break.  The break leaves
\* the select statement only; the goroutine goes round its for loop again
BtcdDone ==
    /\ Btcd /\ doneCh
    /\ UNCHANGED vars

\* ------------------------------------------------------------------------
\* RecorderBackend.processRequests: every response of the wrapped backend is
\* stored in the recorder's index and then passed on to the Accounter
\* ------------------------------------------------------------------------
RecordAddr ==
    /\ Running /\ Recording /\ ~rbStopped
    /\ innerAddrResponses # <<>>
    /\ Len(addrResponses) < addrRequestsChanSize
    /\ LET resp == Head(innerAddrResponses) IN
          /\ rbAddrIndex' = (String(resp.Address) :> resp) @@ rbAddrIndex
          /\ addrResponses' = Append(addrResponses, resp)
    /\ innerAddrResponses' = Tail(innerAddrResponses)
    /\ UNCHANGED <<cachedTransactions, cfgVars, accVars, swVars, addrRequests, txRequests,
                   txResponses, held, doneCh, stopped, pc, result, histVars>>
    /\ UNCHANGED <<innerTxResponses, rbTxIndex, rbStopped, file, first>>
    /\ UNCHANGED ebVars
    /\ UNCHANGED lockVars
    /\ UNCHANGED capVars

RecordTx ==
    /\ Running /\ Recording /\ ~rbStopped
    /\ innerTxResponses # <<>>
    /\ Len(txResponses) < 2 * maxTxsPerAddr
    /\ LET resp == Head(innerTxResponses) IN
          /\ rbTxIndex' = (resp.Hash :> resp) @@ rbTxIndex
          /\ txResponses' = Append(txResponses, resp)
    /\ innerTxResponses' = Tail(innerTxResponses)
    /\ UNCHANGED <<cachedTransactions, cfgVars, accVars, swVars, addrRequests, txRequests,
                   addrResponses, held, doneCh, stopped, pc, result, histVars>>
    /\ UNCHANGED <<innerAddrResponses, rbAddrIndex, rbStopped, file, first>>
    /\ UNCHANGED ebVars
    /\ UNCHANGED lockVars
    /\ UNCHANGED capVars

\* case <-rb.doneCh: return
RecorderStop ==
    /\ Running /\ Recording /\ ~rbStopped
    /\ doneCh
    /\ rbStopped' = TRUE
    /\ UNCHANGED <<cachedTransactions, cfgVars, accVars, swVars, chanVars, pc, result, histVars>>
    /\ UNCHANGED <<innerAddrResponses, innerTxResponses, rbAddrIndex, rbTxIndex, file, first>>
    /\ UNCHANGED ebVars
    /\ UNCHANGED lockVars
    /\ UNCHANGED capVars

\* ------------------------------------------------------------------------
\* Accounter.recvWork
\* ------------------------------------------------------------------------
\* variants of the frontier rule: one index further, one index short
ExtendFrontierPlusOne(last, index) == Max(last, index + lookahead + 1)
ExtendFrontierShort(last, index) == Max(last, index + lookahead - 1)

\* the frontier rule without the maximum
ExtendFrontierNoMax(last, index) == index + lookahead

\* the frontier rule applied on an address response that has transactions
ExtendFrontier(last, index) == Max(last, index + lookahead)

\* the hashes of a response that get a TxRequest: those without a stored
\* transaction
NewTxRequests(hs) == SelectSeq(hs, LAMBDA h : h \notin DOMAIN transactions)

\* recvWork's address case from a.countMu.Lock() at its request loop on: each
\* new hash goes to a.backend.TxRequest, a send on the request channel, with
\* countMu held; the loop stops where the channel is full, and the goroutine
\* waits there holding the lock.  With every hash requested the lock is
\* released and the frontier extended
RequestLoop(resp, todo) ==
    LET room == TxChanSize - Len(txRequests)
        n == IF Len(todo) <= room THEN Len(todo) ELSE room
        sent == SubSeq(todo, 1, n)
        rest == SubSeq(todo, n + 1, Len(todo))
    IN /\ txRequests' = txRequests \o sent
       /\ txAccepted' = txAccepted (+) [h \in {sent[k] : k \in 1..n} |->
                                           Cardinality({k \in 1..n : sent[k] = h})]
       /\ seenTxCount' = seenTxCount + n
       /\ IF rest = <<>>
          THEN /\ countMu' = "free"
               /\ rwResp' = NoResponse
               /\ rwTodo' = <<>>
               /\ lastAddresses' =
                     IF HasTransactions(resp)
                     THEN [lastAddresses EXCEPT ![resp.Address.change] =
                               ExtendFrontier(@, resp.Address.index)]
                     ELSE lastAddresses
          ELSE /\ countMu' = "recvWork"
               /\ rwResp' = resp
               /\ rwTodo' = rest
               /\ lastAddresses' = lastAddresses

RecvAddr ==
    /\ pc = "recvWork" /\ countMu = "free"
    /\ addrResponses # <<>>
    /\ LET resp == Head(addrResponses) IN
          /\ addrResponses' = Tail(addrResponses)
          /\ processedAddrCount' = processedAddrCount + 1
          /\ addresses' = (Script(resp.Address) :>
                              [path |-> resp.Address, txHashes |-> resp.TxHashes])
                          @@ addresses
          /\ RequestLoop(resp, NewTxRequests(resp.TxHashes))
    /\ UNCHANGED <<cachedTransactions, cfgVars, derivedAddrCount, processedTxCount, transactions, swVars,
                   addrRequests, txResponses, held, doneCh, stopped, pc, result,
                   addrAccepted, addrAnswered, txAnswered>>
    /\ UNCHANGED recVars
    /\ UNCHANGED ebVars
    /\ UNCHANGED capVars

\* the send in a.backend.TxRequest goes through once the backend has taken a
\* request off the full channel: the loop goes on from where it waited
RecvAddrResume ==
    /\ pc = "recvWork" /\ countMu = "recvWork"
    /\ Len(txRequests) < TxChanSize
    /\ RequestLoop(rwResp, rwTodo)
    /\ UNCHANGED <<cachedTransactions, cfgVars, derivedAddrCount, processedAddrCount,
                   processedTxCount, addresses, transactions, swVars,
                   addrRequests, addrResponses, txResponses, held, doneCh, stopped, pc, result,
                   addrAccepted, addrAnswered, txAnswered>>
    /\ UNCHANGED recVars
    /\ UNCHANGED ebVars
    /\ UNCHANGED capVars

\* the transaction as recvWork stores it
Stored(resp) == [height |-> resp.Height, hex |-> resp.Hex, vin |-> <<>>, vout |-> <<>>]

RecvTx ==
    /\ pc = "recvWork" /\ countMu = "free"
    /\ txResponses # <<>>
    /\ LET resp == Head(txResponses) IN
          /\ txResponses' = Tail(txResponses)
          /\ processedTxCount' = processedTxCount + 1
          /\ transactions' = (resp.Hash :> Stored(resp)) @@ transactions
    /\ UNCHANGED <<cachedTransactions, cfgVars, lastAddresses, derivedAddrCount, processedAddrCount,
                   seenTxCount, addresses, swVars, addrRequests, addrResponses,
                   txRequests, held, doneCh, stopped, pc, result, histVars>>
    /\ UNCHANGED recVars
    /\ UNCHANGED ebVars
    /\ UNCHANGED lockVars
    /\ UNCHANGED capVars

\* variants of the completion test: without the transaction counters,
\* without the processed-address counter, and counting stored transactions
\* instead of transaction responses
completeNoTx ==
    LET idx == lastAddresses[0] + lastAddresses[1]
    IN derivedAddrCount = idx /\ processedAddrCount = idx

completeNoProcessed ==
    LET idx == lastAddresses[0] + lastAddresses[1]
    IN derivedAddrCount = idx /\ seenTxCount = processedTxCount

completeStored ==
    LET idx == lastAddresses[0] + lastAddresses[1]
    IN /\ derivedAddrCount = idx /\ processedAddrCount = idx
       /\ seenTxCount = Cardinality(DOMAIN transactions)

\* a completion test that looks at the transaction counters only
completeTxOnly == seenTxCount = processedTxCount

\* Accounter.complete
complete ==
    LET idx == lastAddresses[0] + lastAddresses[1]
        addrsDone == derivedAddrCount = idx /\ processedAddrCount = idx
        txsDone == seenTxCount = processedTxCount
    IN addrsDone /\ txsDone

\* case <-time.Tick: if a.complete() { return }   (a tick that finds the
\* fetch incomplete changes nothing)
Tick ==
    /\ pc = "recvWork" /\ countMu = "free"
    /\ complete
    /\ pc' = "finish"
    /\ UNCHANGED <<cachedTransactions, cfgVars, accVars, swVars, chanVars, result, histVars>>
    /\ UNCHANGED recVars
    /\ UNCHANGED ebVars
    /\ UNCHANGED lockVars
    /\ UNCHANGED capVars

\* a writer that puts the index in the change column and the change in the
\* index column
WriteToFileSwapped ==
    [written |-> TRUE,
     Addresses |-> {[Address |-> a,
                     Change |-> rbAddrIndex[a].Address.index,
                     AddressIndex |-> rbAddrIndex[a].Address.change,
                     TxHashes |-> rbAddrIndex[a].TxHashes] : a \in DOMAIN rbAddrIndex},
     Transactions |-> {[Hash |-> rbTxIndex[h].Hash,
                        Height |-> rbTxIndex[h].Height,
                        Hex |-> rbTxIndex[h].Hex] : h \in DOMAIN rbTxIndex}]

\* RecorderBackend.writeToFile: one entry per recorded address (keyed by its
\* string, with change, index and hashes) and one per recorded transaction
WriteToFile ==
    [written |-> TRUE,
     Addresses |-> {[Address |-> a,
                     Change |-> rbAddrIndex[a].Address.change,
                     AddressIndex |-> rbAddrIndex[a].Address.index,
                     TxHashes |-> rbAddrIndex[a].TxHashes] : a \in DOMAIN rbAddrIndex},
     Transactions |-> {[Hash |-> rbTxIndex[h].Hash,
                        Height |-> rbTxIndex[h].Height,
                        Hex |-> rbTxIndex[h].Hex] : h \in DOMAIN rbTxIndex}]

\* a.backend.Finish(): close(doneCh); the RecorderBackend finishes the
\* backend it wraps, closes its own doneCh and writes its file
Finish ==
    /\ pc = "finish"
    /\ doneCh' = TRUE
    /\ file' = IF Recording THEN WriteToFile ELSE file
    /\ pc' = "process"
    /\ UNCHANGED <<cachedTransactions, cfgVars, accVars, swVars, addrRequests, addrResponses, txRequests,
                   txResponses, held, stopped, result, histVars>>
    /\ UNCHANGED <<innerAddrResponses, innerTxResponses, rbAddrIndex, rbTxIndex, rbStopped, first>>
    /\ UNCHANGED ebVars
    /\ UNCHANGED lockVars
    /\ UNCHANGED capVars

\* ------------------------------------------------------------------------
\* Accounter.processTransactions
\* ------------------------------------------------------------------------
\* variants of the height filter: one that keeps unmined transactions, one
\* that drops the transactions mined in the target block itself
KeepHeightUnmined(height) == ~(height > blockHeight)
KeepHeightBelowTarget(height) == ~(height >= blockHeight) /\ ~(height <= 0)

\* the filter of the earlier revision: only height 0 counts as unmined
KeepHeightZeroOnly(height) == ~(height > blockHeight) /\ ~(height = 0)

\* the height filter: a transaction stays unless it is too recent or unmined
KeepHeight(height) == ~(height > blockHeight) /\ ~(height <= 0)

\* the parsed outputs: value, script, and whether the script is one of ours
ParseVout(hex, addrs) ==
    [k \in 1..Len(hex.vout) |->
        [value |-> hex.vout[k].value,
         address |-> hex.vout[k].pkScript,
         ours |-> hex.vout[k].pkScript \in DOMAIN addrs,
         spentBy |-> 0]]

ParseVin(hex) ==
    [k \in 1..Len(hex.vin) |->
        [prevHash |-> hex.vin[k].prevHash, index |-> hex.vin[k].index]]

processTransactions(txs, addrs) ==
    [h \in {x \in DOMAIN txs : KeepHeight(txs[x].height)} |->
        [height |-> txs[h].height,
         hex |-> txs[h].hex,
         vin |-> txs[h].vin \o ParseVin(txs[h].hex),
         vout |-> txs[h].vout \o ParseVout(txs[h].hex, addrs)]]

ProcessTransactions ==
    /\ pc = "process"
    /\ transactions' = processTransactions(transactions, addresses)
    /\ pc' = "balance"
    /\ UNCHANGED <<cachedTransactions, cfgVars, lastAddresses, derivedAddrCount,
                   processedAddrCount, seenTxCount, processedTxCount, addresses,
                   swVars, chanVars, result, histVars>>
    /\ UNCHANGED recVars
    /\ UNCHANGED ebVars
    /\ UNCHANGED lockVars
    /\ UNCHANGED capVars

\* ------------------------------------------------------------------------
\* Accounter.balance
\* ------------------------------------------------------------------------
\* compute all credits
Credits(txs) ==
    LET outs == UNION {{<<h, k>> : k \in 1..Len(txs[h].vout)} : h \in DOMAIN txs}
        val == [o \in outs |-> IF txs[o[1]].vout[o[2]].ours
                               THEN txs[o[1]].vout[o[2]].value ELSE 0]
    IN SetSum(outs, val)

\* the debit of one input slot against the running state st =
\* [txs, balance, panic]: skipped when the previous transaction is not in the
\* ledger, a panic when the index is past its outputs or the output is spent
\* already, else the output is marked spent
DebitInputNoSpentCheck(st, hash, txin) ==
    IF txin.prevHash \notin DOMAIN st.txs THEN st
    ELSE LET prev == st.txs[txin.prevHash] IN
         IF txin.index >= Len(prev.vout) THEN [st EXCEPT !.panic = TRUE]
         ELSE LET out == prev.vout[txin.index + 1] IN
              IF ~out.ours THEN st
              ELSE [st EXCEPT !.balance = @ - out.value,
                              !.txs[txin.prevHash].vout[txin.index + 1].spentBy = hash]

\* a debit that does not look at who owns the output
DebitInputAnyOwner(st, hash, txin) ==
    IF txin.prevHash \notin DOMAIN st.txs THEN st
    ELSE LET prev == st.txs[txin.prevHash] IN
         IF txin.index >= Len(prev.vout) THEN [st EXCEPT !.panic = TRUE]
         ELSE LET out == prev.vout[txin.index + 1] IN
              IF out.spentBy # 0
              THEN [st EXCEPT !.balance = @ - out.value, !.panic = TRUE]
              ELSE [st EXCEPT !.balance = @ - out.value,
                              !.txs[txin.prevHash].vout[txin.index + 1].spentBy = hash]

DebitInput(st, hash, txin) ==
    IF txin.prevHash \notin DOMAIN st.txs THEN st
    ELSE LET prev == st.txs[txin.prevHash] IN
         IF txin.index >= Len(prev.vout) THEN [st EXCEPT !.panic = TRUE]
         ELSE LET out == prev.vout[txin.index + 1] IN
              IF ~out.ours THEN st
              ELSE IF out.spentBy # 0
                   THEN [st EXCEPT !.balance = @ - out.value, !.panic = TRUE]
                   ELSE [st EXCEPT !.balance = @ - out.value,
                                   !.txs[txin.prevHash].vout[txin.index + 1].spentBy = hash]

\* compute all debits: the inputs of one transaction in order, the
\* transactions in the order the map iteration yields them
RECURSIVE DebitTx(_, _, _)
DebitTx(st, hash, k) ==
    IF st.panic \/ k > Len(st.txs[hash].vin) THEN st
    ELSE DebitTx(DebitInput(st, hash, st.txs[hash].vin[k]), hash, k + 1)

RECURSIVE Debits(_, _)
Debits(st, todo) ==
    IF st.panic \/ todo = {} THEN st
    ELSE LET hash == CHOOSE h \in todo : TRUE
         IN Debits(DebitTx(st, hash, 1), todo \ {hash})

balance(txs) ==
    LET st == Debits([txs |-> txs, balance |-> Credits(txs), panic |-> FALSE], DOMAIN txs)
    IN IF st.panic \/ st.balance < 0
       THEN [st EXCEPT !.panic = TRUE]
       ELSE st

\* what the ledger holds when the debit loop is over.  spentBy is set to
\* &hash, the address of the loop's one key variable (go.mod: go 1.12), so
\* every output marked spent points at that variable, and it holds the key
\* the map iteration yielded last
SpentByAtReturn(txs, last) ==
    [h \in DOMAIN txs |->
        [txs[h] EXCEPT !.vout =
            [k \in 1..Len(txs[h].vout) |->
                IF txs[h].vout[k].spentBy = 0
                THEN txs[h].vout[k]
                ELSE [txs[h].vout[k] EXCEPT !.spentBy = last]]]]

\* the map iteration may end on any key of the ledger
Balance ==
    /\ pc = "balance"
    /\ LET st == balance(transactions) IN
          /\ \/ /\ DOMAIN transactions = {}
                /\ transactions' = st.txs
             \/ \E last \in DOMAIN transactions :
                   transactions' = SpentByAtReturn(st.txs, last)
          /\ result' = IF st.panic THEN result ELSE st.balance
          /\ pc' = IF st.panic THEN "panic" ELSE "done"
    /\ UNCHANGED <<cachedTransactions, cfgVars, lastAddresses, derivedAddrCount,
                   processedAddrCount, seenTxCount, processedTxCount, addresses,
                   swVars, chanVars, histVars>>
    /\ UNCHANGED recVars
    /\ UNCHANGED ebVars
    /\ UNCHANGED lockVars
    /\ UNCHANGED capVars

\* ------------------------------------------------------------------------
\* The ledger on its own: processTransactions and balance run on an Accounter
\* built directly with its addresses and transactions, as
\* TestProcessTransactions builds it.  Transaction 1 funds, transactions 2
\* and 3 spend; heights, owners and inputs are free.
\* ------------------------------------------------------------------------
\* heights a backend reports: -1 and 0 for transactions not mined yet
LedgerHeights == (-1)..(blockHeight + 1)

Own(k) == Script(NewAddress(0, k))
Foreign == <<"script", "other">>

OutPoints == {[prevHash |-> 1, index |-> i] : i \in 0..2}
VinChoices(n) == UNION {[1..k -> OutPoints] : k \in 0..n}

LedgerTx(h, height, vin, vout) ==
    [Hash |-> h, Height |-> height, Hex |-> [vin |-> vin, vout |-> vout]]

InitLedger ==
    /\ lookahead = 1
    /\ blockHeight = NumHashes - 1
    /\ kind = "fixture"
    /\ singleAddress = FALSE
    /\ addrIndex = <<>>
    /\ \E h1 \in LedgerHeights, h2 \in LedgerHeights, h3 \in LedgerHeights,
          s1 \in {Own(0), Foreign}, s2 \in {Own(1), Foreign}, s3 \in {Own(0), Foreign},
          v2 \in VinChoices(MaxVin), v3 \in VinChoices(1) :
          txIndex = (1 :> LedgerTx(1, h1, <<>>, <<[value |-> 5, pkScript |-> s1],
                                                   [value |-> 3, pkScript |-> s2]>>))
                    @@ (2 :> LedgerTx(2, h2, v2, <<[value |-> 1, pkScript |-> s3]>>))
                    @@ (3 :> LedgerTx(3, h3, v3, <<>>))
    /\ \E own \in {{0}, {0, 1}} :
          addresses = [sc \in {Own(k) : k \in own} |->
                          [path |-> NewAddress(0, CHOOSE k \in own : Own(k) = sc),
                           txHashes |-> <<>>]]
    /\ transactions = [h \in DOMAIN txIndex |-> Stored(txIndex[h])]
    /\ lastAddresses = [c \in 0..1 |-> lookahead]
    /\ derivedAddrCount = 0
    /\ processedAddrCount = 0
    /\ seenTxCount = 0
    /\ processedTxCount = 0
    /\ InitSendWork
    /\ InitBackend
    /\ scale = 1
    /\ NoRpc
    /\ NoElectrum
    /\ NoSearch
    /\ computeBalanceBlockHeight = blockHeight
    /\ chainHeight = blockHeight + minConfirmations - 1
    /\ pc = "process"
    /\ result = 0

NextLedger == ProcessTransactions \/ Balance

SpecLedger == InitLedger /\ [][NextLedger]_vars

\* ------------------------------------------------------------------------
\* Properties of the ledger, stated over the raw transactions that were
\* fetched (txIndex) and the recorded addresses
\* ------------------------------------------------------------------------
\* fetched transactions mined at or below the target height
KeptTxs == {h \in DOMAIN txIndex :
               txIndex[h].Height > 0 /\ txIndex[h].Height <= blockHeight}

\* outputs of those transactions whose script is a recorded address
OwnedOutputs ==
    UNION {{<<h, k>> : k \in {j \in 1..Len(txIndex[h].Hex.vout) :
                                 txIndex[h].Hex.vout[j].pkScript \in DOMAIN addresses}}
           : h \in KeptTxs}

\* the input slots of those transactions that reference output o
Spenders(o) ==
    UNION {{<<h, j>> : j \in {i \in 1..Len(txIndex[h].Hex.vin) :
                                 txIndex[h].Hex.vin[i] =
                                     [prevHash |-> o[1], index |-> o[2] - 1]}}
           : h \in KeptTxs}

OutputValue == [o \in OwnedOutputs |-> txIndex[o[1]].Hex.vout[o[2]].value]

\* C1: the balance returned is the sum of the owned outputs of the
\* transactions with 0 < height <= target, minus the sum of those owned
\* outputs that an input of a remaining transaction references
C1_BalanceIsCreditsMinusDebits ==
    pc = "done" =>
        result = SetSum(OwnedOutputs, OutputValue)
                 - SetSum({o \in OwnedOutputs : Spenders(o) # {}}, OutputValue)

\* a balance was returned for a ledger with a filtered transaction, an owned
\* output that was spent and one that was not
C1_Witness ==
    /\ pc = "done"
    /\ KeptTxs # DOMAIN txIndex
    /\ \E o \in OwnedOutputs : Spenders(o) # {}
    /\ \E o \in OwnedOutputs : Spenders(o) = {}

DoubleSpend == \E o \in OwnedOutputs : Cardinality(Spenders(o)) >= 2

Next ==
    \/ SendDerive \/ SendRequest \/ SendNext
    \/ ProcessAddrRequest \/ ProcessTxRequest \/ WorkerSendAddr \/ WorkerSendTx
    \/ EchoAddr \/ EchoTx \/ FixtureStop \/ BtcdDone
    \/ RecvAddr \/ RecvTx \/ Tick \/ Finish
    \/ ProcessTransactions \/ Balance

Spec == Init /\ [][Next]_vars

\* ------------------------------------------------------------------------
\* Properties of the fetch phase
\* ------------------------------------------------------------------------
\* the fetch phase has ended: recvWork has returned
FetchEnded == pc # "recvWork"

HashesOf(hs) == {hs[k] : k \in 1..Len(hs)}

RecordedHashes == UNION {HashesOf(addresses[sc].txHashes) : sc \in DOMAIN addresses}

NothingOutstanding ==
    /\ addrRequests = <<>> /\ addrResponses = <<>>
    /\ txRequests = <<>> /\ txResponses = <<>>
    /\ BagCardinality(held) = 0
    /\ swPc = "loop"

\* C2: when the fetch phase has ended, every index below the frontier of
\* either stream has its address response recorded, every hash listed in a
\* recorded history has a stored transaction (until the height filter
\* runs), no request or response is outstanding, and the sender has reached
\* both frontiers, so that nothing can move them any more
C2_FetchEndComplete ==
    FetchEnded =>
        /\ \A c \in 0..1 : \A i \in 0..(lastAddresses[c] - 1) :
               Script(Derive(c, i)) \in DOMAIN addresses
        /\ BagCardinality(addrAnswered) = lastAddresses[0] + lastAddresses[1]
        /\ processedAddrCount = lastAddresses[0] + lastAddresses[1]
        /\ (pc \in {"finish", "process"} => RecordedHashes \subseteq DOMAIN transactions)
        /\ NothingOutstanding
        /\ \A c \in 0..1 : indexes[c] = lastAddresses[c]

\* a fetch ended after the frontier of stream 0 was extended and
\* transactions were fetched
C2_Witness ==
    /\ pc = "finish"
    /\ lastAddresses[0] > lookahead
    /\ DOMAIN transactions # {}

\* indexes of stream c whose recorded address has history
UsedIndexes(c) ==
    {i \in 0..lastAddresses[c] :
        /\ Script(NewAddress(c, i)) \in DOMAIN addresses
        /\ addresses[Script(NewAddress(c, i))].txHashes # <<>>}

ScannedEmpty(c, i) ==
    /\ Script(NewAddress(c, i)) \in DOMAIN addresses
    /\ addresses[Script(NewAddress(c, i))].txHashes = <<>>

HighestUsed(c) == CHOOSE m \in UsedIndexes(c) : \A i \in UsedIndexes(c) : i <= m

\* n consecutive empty addresses were scanned beyond the highest used one
EmptyRunBeyond(c, n) ==
    UsedIndexes(c) # {} => \A k \in 1..n : ScannedEmpty(c, HighestUsed(c) + k)

\* C3 as stated: at the end of the fetch, in each stream of a derived
\* wallet, lookahead consecutive empty addresses were scanned beyond the
\* highest address with history
C3_Original ==
    (FetchEnded /\ ~singleAddress) => \A c \in 0..1 : EmptyRunBeyond(c, lookahead)

\* C3: at the end of the fetch, in each stream of a derived wallet, the
\* frontier is the highest used index plus lookahead: lookahead - 1
\* consecutive empty addresses were scanned beyond the highest address with
\* history, and the next one was not scanned (a stream without history was
\* scanned for its first lookahead addresses)
C3_GapIsLookaheadMinusOne ==
    (FetchEnded /\ ~singleAddress) =>
        \A c \in 0..1 :
            /\ EmptyRunBeyond(c, lookahead - 1)
            /\ UsedIndexes(c) # {} => lastAddresses[c] = HighestUsed(c) + lookahead
            /\ UsedIndexes(c) # {} =>
                   Script(NewAddress(c, HighestUsed(c) + lookahead)) \notin DOMAIN addresses
            /\ UsedIndexes(c) = {} => \A i \in 0..(lookahead - 1) : ScannedEmpty(c, i)

\* a fetch over a derived wallet ended where stream 0 has history above
\* index 0 and stream 1 has history
C3_Witness ==
    /\ pc = "finish" /\ ~singleAddress
    /\ UsedIndexes(0) # {} /\ HighestUsed(0) >= 1
    /\ UsedIndexes(1) # {}

\* the step of recvWork that handles an address response with history
RecvAddrWithHistory ==
    /\ pc = "recvWork"
    /\ addrResponses # <<>>
    /\ HasTransactions(Head(addrResponses))
    /\ processedAddrCount' = processedAddrCount + 1

\* C4 as stated: history at index i moves the frontier of its stream to
\* max(frontier, i + lookahead + 1)
C4_Original ==
    [][RecvAddrWithHistory =>
          LET a == Head(addrResponses).Address
          IN lastAddresses'[a.change] =
                 Max(lastAddresses[a.change], a.index + lookahead + 1)]_vars

\* C4: history at index i moves the frontier of its stream to
\* max(frontier, i + lookahead), and leaves the other stream's alone
C4_FrontierRule ==
    [][RecvAddrWithHistory =>
          LET a == Head(addrResponses).Address
          IN /\ lastAddresses'[a.change] =
                    Max(lastAddresses[a.change], a.index + lookahead)
             /\ lastAddresses'[1 - a.change] = lastAddresses[1 - a.change]]_vars

\* an address with history at index >= 1 was recorded and the frontier of
\* its stream has moved past the initial window
C4_Witness ==
    \E sc \in DOMAIN addresses :
        /\ addresses[sc].txHashes # <<>>
        /\ addresses[sc].path.index >= 1
        /\ lastAddresses[addresses[sc].path.change] =
               addresses[sc].path.index + lookahead
        /\ lastAddresses[addresses[sc].path.change] > lookahead

\* ------------------------------------------------------------------------
\* What the wallet and the backend data determine: the frontier reached by
\* sweeping until no scanned address with history lies within lookahead of
\* it, the addresses below it, the transactions they list, the balance
\* ------------------------------------------------------------------------
Answers(f) ==
    {AddrLookup(Derive(p[1], p[2])) : p \in UNION {{<<c, i>> : i \in 0..(f[c] - 1)} : c \in 0..1}}

Reach(f, c) ==
    {r.Address.index + lookahead :
        r \in {x \in Answers(f) : x.TxHashes # <<>> /\ x.Address.change = c}}

SetMax(S, d) == IF S = {} THEN d ELSE CHOOSE m \in S : \A x \in S : x <= m

RECURSIVE FinalFrontier(_)
FinalFrontier(f) ==
    LET g == [c \in 0..1 |-> Max(f[c], SetMax(Reach(f, c), 0))]
    IN IF g = f THEN f ELSE FinalFrontier(g)

ExpFrontier == FinalFrontier([c \in 0..1 |-> lookahead])

ExpAddresses ==
    [sc \in {Script(r.Address) : r \in Answers(ExpFrontier)} |->
        LET r == CHOOSE x \in Answers(ExpFrontier) : Script(x.Address) = sc
        IN [path |-> r.Address, txHashes |-> r.TxHashes]]

ExpTransactions ==
    [h \in UNION {HashesOf(r.TxHashes) : r \in Answers(ExpFrontier)} |-> Stored(txIndex[h])]

ExpOutcome == balance(processTransactions(ExpTransactions, ExpAddresses))

LoadFileAddrs(f) ==
    [a \in {r.Address : r \in f.Addresses} |->
        LET r == CHOOSE x \in f.Addresses : x.Address = a
        IN AddrResponse(NewAddress(r.Change, r.AddressIndex), r.TxHashes)]

LoadFileTxs(f) ==
    [h \in {t.Hash : t \in f.Transactions} |->
        LET t == CHOOSE x \in f.Transactions : x.Hash = h
        IN [Hash |-> t.Hash, Height |-> t.Height, Hex |-> t.Hex]]

\* the second run: compute-balance with the fixture backend on the file
Replay ==
    /\ pc = "done" /\ Recording /\ file.written
    /\ first' = [replayed |-> TRUE, frontier |-> lastAddresses, balance |-> result]
    /\ kind' = "fixture"
    /\ addrIndex' = LoadFileAddrs(file)
    /\ txIndex' = LoadFileTxs(file)
    /\ lastAddresses' = [c \in 0..1 |-> lookahead]
    /\ derivedAddrCount' = 0 /\ processedAddrCount' = 0
    /\ seenTxCount' = 0 /\ processedTxCount' = 0
    /\ addresses' = <<>> /\ transactions' = <<>>
    /\ indexes' = [c \in 0..1 |-> 0] /\ swChange' = 0 /\ swLast' = lookahead /\ swPc' = "loop"
    /\ addrRequests' = <<>> /\ addrResponses' = <<>>
    /\ txRequests' = <<>> /\ txResponses' = <<>>
    /\ held' = EmptyBag /\ doneCh' = FALSE /\ stopped' = FALSE
    /\ cachedTransactions' = {}
    /\ addrAccepted' = EmptyBag /\ addrAnswered' = EmptyBag
    /\ txAccepted' = EmptyBag /\ txAnswered' = EmptyBag
    /\ innerAddrResponses' = <<>> /\ innerTxResponses' = <<>>
    /\ rbAddrIndex' = <<>> /\ rbTxIndex' = <<>> /\ rbStopped' = FALSE
    /\ pc' = "recvWork" /\ result' = 0
    /\ UNCHANGED <<lookahead, blockHeight, singleAddress, file>>
    /\ UNCHANGED ebVars
    /\ UNCHANGED lockVars
    /\ UNCHANGED capVars

InitRecorder == InitKinds({"btcd-recorder"}, MaxUsedFair)

NextRecorder == Next \/ RecordAddr \/ RecordTx \/ RecorderStop \/ Replay

\* every response that reached the Accounter's channels or its maps is in
\* the recorder's indexes
RecordedBeforeDelivered ==
    Recording =>
        /\ \A k \in 1..Len(addrResponses) :
               /\ String(addrResponses[k].Address) \in DOMAIN rbAddrIndex
               /\ rbAddrIndex[String(addrResponses[k].Address)] = addrResponses[k]
        /\ \A sc \in DOMAIN addresses :
               /\ String(addresses[sc].path) \in DOMAIN rbAddrIndex
               /\ rbAddrIndex[String(addresses[sc].path)].TxHashes = addresses[sc].txHashes
        /\ \A k \in 1..Len(txResponses) :
               /\ txResponses[k].Hash \in DOMAIN rbTxIndex
               /\ rbTxIndex[txResponses[k].Hash] = txResponses[k]
        /\ DOMAIN transactions \subseteq DOMAIN rbTxIndex

\* the replay has everything it will ask for, ends its fetch on the
\* frontiers of the recorded run and returns the recorded run's balance
ReplayAgrees ==
    first.replayed =>
        /\ ListedHashes \subseteq DOMAIN txIndex
        /\ pc # "panic"
        /\ FetchEnded => lastAddresses = first.frontier
        /\ pc = "done" => result = first.balance

\* Scheduling: every goroutine that can take a step eventually does, and a
\* select with a ready case eventually takes it.  The fixture's echo of its
\* own responses needs no fairness.
Fairness ==
    /\ WF_vars(SendDerive \/ SendRequest \/ SendNext)
    /\ WF_vars(ProcessAddrRequest)
    /\ WF_vars(ProcessTxRequest)
    /\ WF_vars(WorkerSendAddr)
    /\ WF_vars(WorkerSendTx)
    /\ WF_vars(RecvAddr)
    /\ WF_vars(RecvTx)
    /\ WF_vars(Tick)
    /\ WF_vars(Finish \/ ProcessTransactions \/ Balance)
    /\ WF_vars(FixtureStop)

InitFair == InitWith(MaxUsedFair)

SpecFair == InitFair /\ [][Next]_vars /\ Fairness

\* ------------------------------------------------------------------------
\* Properties of the backends' request / response traffic
\* ------------------------------------------------------------------------
Count(s, x) == Cardinality({k \in 1..Len(s) : s[k] = x})

\* address strings the sender can request
AddrUniverse ==
    {String(NewAddress(c, i)) : c \in 0..1, i \in 0..(MaxUsedIndex + MaxLookahead - 1)}

\* requests for address a that a backend holds: queued, or taken by a worker
\* whose response is not sent yet
AddrPending(a) ==
    Count([k \in 1..Len(addrRequests) |-> String(addrRequests[k])], a)
    + BagCardinality(BagOfAll(LAMBDA r : r.type,
          [r \in {x \in BagToSet(held) : x.type = "addr" /\ String(x.resp.Address) = a}
              |-> held[r]]))

\* requests for hash h that a backend holds
TxPending(h) ==
    Count(txRequests, h)
    + BagCardinality(BagOfAll(LAMBDA r : r.type,
          [r \in {x \in BagToSet(held) : x.type = "tx" /\ x.resp.Hash = h}
              |-> held[r]]))

AddrExactlyOnce(a) == CopiesIn(a, addrAccepted) = CopiesIn(a, addrAnswered) + AddrPending(a)

TxExactlyOnce(h) == CopiesIn(h, txAccepted) = CopiesIn(h, txAnswered) + TxPending(h)

\* every address response on its way to the receiver that answers an
\* address absent from the backend's data has an empty history
UnknownAnsweredEmpty ==
    \A k \in 1..Len(addrResponses) :
        String(addrResponses[k].Address) \notin DOMAIN addrIndex
            => addrResponses[k].TxHashes = <<>>

FairnessRecorder == Fairness /\ WF_vars(RecordAddr) /\ WF_vars(RecordTx)

SpecRecorder == InitRecorder /\ [][NextRecorder]_vars /\ FairnessRecorder

PeerKinds == {"good", "refuses", "flaky", "forked"}

\* the steps of addNode that can fail
HandshakeSteps == {"connect", "features", "genesis", "version", "negotiate"}

\* capacity of the request and response channels
ebChanSize == 2 * maxPeers

\* what the client of the backend asks for
EbAddresses == {NewAddress(0, 1)}
EbHashes == {1, NumHashes}
EbHeights == {1}

\* a goroutine running processRequests(node): the identity of its node and
\* whether the node's connection is open
Worker(p, open) == [id |-> p, open |-> open]

\* node.Disconnect() on the node stored under ident p: the goroutine that
\* serves that node keeps running with a closed connection
Disconnect(W, p) ==
    LET n == CopiesIn(Worker(p, TRUE), W)
    IN IF n = 0 THEN W
       ELSE (W (-) [x \in {Worker(p, TRUE)} |-> n]) (+) [x \in {Worker(p, FALSE)} |-> n]

DisconnectAll(W, ps) ==
    LET S == BagToSet(W)
        T == {Worker(w.id, IF w.id \in ps THEN FALSE ELSE w.open) : w \in S}
    IN [t \in T |->
          (IF t \in S THEN W[t] ELSE 0)
          + (IF t.id \in ps /\ ~t.open /\ Worker(t.id, TRUE) \in S
             THEN W[Worker(t.id, TRUE)] ELSE 0)]

\* the outcomes of an RPC of worker w: it fails on a closed connection, may
\* fail on a flaky peer, succeeds otherwise
RpcOutcomes(w) ==
    IF ~w.open THEN {FALSE}
    ELSE IF peerKind[w.id] = "flaky" THEN BOOLEAN
    ELSE {TRUE}

\* the same for a request that is put back on its queue when it fails; the
\* model follows a run up to MaxFailures failed requests
RequestOutcomes(w) ==
    IF BagCardinality(requeued) < MaxFailures THEN RpcOutcomes(w)
    ELSE RpcOutcomes(w) \ {FALSE}

\* node.BlockchainAddressGetHistory: hash and height of each transaction
PeerHistory(p, addr) ==
    LET hs == AddrLookup(addr).TxHashes
    IN [k \in 1..Len(hs) |->
          [Hash |-> hs[k],
           Height |-> ChainTx(hs[k]).Height + (IF peerKind[p] = "forked" THEN 1 ELSE 0)]]

\* a cache that takes whatever height it is given last
InconsistentNever(cache, txs) == FALSE

\* ElectrumBackend.cacheTxs: a hash cached with another height is fatal
Inconsistent(cache, txs) ==
    \E k \in 1..Len(txs) :
        /\ txs[k].Hash \in DOMAIN cache
        /\ cache[txs[k].Hash] # txs[k].Height

\* a cacheTxs that stores nothing
ebCacheTxsNone(cache, txs) == cache

\* ElectrumBackend.cacheTxs: each listed hash is stored with its height
ebCacheTxs(cache, txs) ==
    [h \in DOMAIN cache \cup {txs[k].Hash : k \in 1..Len(txs)} |->
        IF \E k \in 1..Len(txs) : txs[k].Hash = h
        THEN txs[CHOOSE k \in 1..Len(txs) : txs[k].Hash = h].Height
        ELSE cache[h]]

\* backend.BlockResponse
BlockResponse(height) == [Height |-> height, Timestamp |-> timestamps[height]]

\* what no ElectrumBackend step changes
ebCore == <<cfgVars, accVars, swVars, held, stopped, cachedTransactions, result,
            recVars, bfVars, mainVars, peerKind, announced, lockVars, capVars, rpcVars>>
ebFrame == <<ebCore, connecting>>

\* NewElectrumBackend returned without error: the initial peer passed the
\* handshake, is pooled and served, and the discovery goroutine starts with
\* findPeers()
InitElectrum ==
    /\ lookahead = 1
    /\ blockHeight = NumHashes - 1
    /\ kind = "electrum"
    /\ singleAddress = FALSE
    /\ addrIndex = LoadAddrIndex(UsedBy({0, 1}))
    /\ txIndex = LoadTxIndex(Hashes)
    /\ InitAccounter
    /\ InitSendWork
    /\ InitBackend
    /\ scale = 1
    /\ NoRpc
    /\ NoSearch
    /\ computeBalanceBlockHeight = blockHeight
    /\ chainHeight = blockHeight + minConfirmations - 1
    /\ pc = "serving"
    /\ result = 0
    /\ peerKind \in [Peers -> PeerKinds]
    /\ peerKind[1] # "refuses"
    /\ announced = Peers
    /\ nodes = {1}
    /\ blacklistedNodes = {}
    /\ ebWorkers = SetToBag({Worker(1, TRUE)})
    /\ toAdd = {}
    /\ discovery = "find"
    /\ ebTransactions = <<>>
    /\ blockRequests = <<>>
    /\ blockResponses = <<>>
    /\ blockAccepted = EmptyBag
    /\ blockAnswered = EmptyBag
    /\ connects = SetToBag({1})
    /\ failed = {}
    /\ requeued = EmptyBag

\* the backend's goroutines run until the process ends
Serving == kind = "electrum" /\ pc \notin {"done", "panic"}

RequestsAccepted ==
    BagCardinality(addrAccepted) + BagCardinality(txAccepted) + BagCardinality(blockAccepted)

\* ElectrumBackend.AddrRequest
AddrRequest ==
    /\ Serving /\ RequestsAccepted < MaxRequests
    /\ Len(addrRequests) < ebChanSize
    /\ \E a \in EbAddresses :
          /\ addrRequests' = Append(addrRequests, a)
          /\ addrAccepted' = addrAccepted (+) SetToBag({String(a)})
    /\ UNCHANGED <<ebFrame, nodes, blacklistedNodes, ebWorkers, toAdd, discovery,
                   ebTransactions, blockVars, ebHistVars, addrResponses, txRequests,
                   txResponses, doneCh, pc, addrAnswered, txAccepted, txAnswered>>

\* ElectrumBackend.TxRequest
TxRequest ==
    /\ Serving /\ RequestsAccepted < MaxRequests
    /\ Len(txRequests) < ebChanSize
    /\ \E h \in EbHashes :
          /\ txRequests' = Append(txRequests, h)
          /\ txAccepted' = txAccepted (+) SetToBag({h})
    /\ UNCHANGED <<ebFrame, nodes, blacklistedNodes, ebWorkers, toAdd, discovery,
                   ebTransactions, blockVars, ebHistVars, addrRequests, addrResponses,
                   txResponses, doneCh, pc, addrAccepted, addrAnswered, txAnswered>>

\* ElectrumBackend.BlockRequest
BlockRequest ==
    /\ Serving /\ RequestsAccepted < MaxRequests
    /\ Len(blockRequests) < ebChanSize
    /\ \E n \in EbHeights :
          /\ blockRequests' = Append(blockRequests, n)
          /\ blockAccepted' = blockAccepted (+) SetToBag({n})
    /\ UNCHANGED <<ebFrame, nodes, blacklistedNodes, ebWorkers, toAdd, discovery,
                   ebTransactions, blockResponses, blockAnswered, ebHistVars,
                   addrRequests, addrResponses, txRequests, txResponses, doneCh, pc,
                   histVars>>

\* a handler that puts the failed request back twice
RequeueTwice(queue, request) == Append(Append(Tail(queue), request), request)

\* "requeue request": the handler took the request from the head of the
\* queue and sends it to the same channel again
Requeue(queue, request) == Append(Tail(queue), request)

\* the error path of a request handler, run by worker w: removeNode of its
\* own ident, and the goroutine returns
WorkersAfterFailure(w) == Disconnect(ebWorkers (-) SetToBag({w}), w.id)

RemoveNodeAndReturn(w, request) ==
    /\ nodes' = nodes \ {w.id}
    /\ ebWorkers' = WorkersAfterFailure(w)
    /\ failed' = IF w.id \in nodes THEN failed \cup {w.id} ELSE failed
    /\ requeued' = requeued (+) SetToBag({request})
    /\ UNCHANGED <<blacklistedNodes, toAdd, discovery, connects>>

\* ElectrumBackend.processAddrRequest, taken by some processRequests(node)
EbProcessAddrRequest ==
    /\ Serving /\ addrRequests # <<>>
    /\ \E w \in BagToSet(ebWorkers) : \E ok \in RequestOutcomes(w) :
        LET addr == Head(addrRequests)
            txs == PeerHistory(w.id, addr)
        IN IF ~ok
           THEN /\ RemoveNodeAndReturn(w, <<"addr", String(addr)>>)
                /\ addrRequests' = Requeue(addrRequests, addr)
                /\ UNCHANGED <<addrResponses, addrAnswered, ebTransactions, pc>>
           ELSE IF Inconsistent(ebTransactions, txs)
           THEN /\ pc' = "panic"
                /\ addrRequests' = Tail(addrRequests)
                /\ UNCHANGED <<addrResponses, addrAnswered, ebTransactions, poolVars,
                               ebHistVars>>
           ELSE /\ Len(addrResponses) < ebChanSize
                /\ addrRequests' = Tail(addrRequests)
                /\ ebTransactions' = ebCacheTxs(ebTransactions, txs)
                /\ addrResponses' = Append(addrResponses,
                                           AddrResponse(addr, AddrLookup(addr).TxHashes))
                /\ addrAnswered' = addrAnswered (+) SetToBag({String(addr)})
                /\ UNCHANGED <<poolVars, ebHistVars, pc>>
    /\ UNCHANGED <<ebFrame, blockVars, txRequests, txResponses, doneCh, addrAccepted,
                   txAccepted, txAnswered>>

\* ElectrumBackend.getTxHeight: the cached height, or none on a miss
getTxHeight(txHash) ==
    IF txHash \in DOMAIN ebTransactions THEN {ebTransactions[txHash]} ELSE {}

\* ElectrumBackend.processTxRequest
EbProcessTxRequest ==
    /\ Serving /\ txRequests # <<>>
    /\ \E w \in BagToSet(ebWorkers) : \E ok \in RequestOutcomes(w) :
        LET txHash == Head(txRequests)
        IN IF ~ok
           THEN /\ RemoveNodeAndReturn(w, <<"tx", txHash>>)
                /\ txRequests' = Requeue(txRequests, txHash)
                /\ UNCHANGED <<txResponses, txAnswered, pc>>
           ELSE IF getTxHeight(txHash) = {}
           THEN /\ pc' = "panic"
                /\ txRequests' = Tail(txRequests)
                /\ UNCHANGED <<txResponses, txAnswered, poolVars, ebHistVars>>
           ELSE /\ Len(txResponses) < ebChanSize
                /\ txRequests' = Tail(txRequests)
                /\ txResponses' = Append(txResponses,
                      [Hash |-> txHash,
                       Height |-> CHOOSE n \in getTxHeight(txHash) : TRUE,
                       Hex |-> RawTx(txHash)])
                /\ txAnswered' = txAnswered (+) SetToBag({txHash})
                /\ UNCHANGED <<poolVars, ebHistVars, pc>>
    /\ UNCHANGED <<ebFrame, ebTransactions, blockVars, addrRequests, addrResponses,
                   doneCh, addrAccepted, addrAnswered, txAccepted>>

\* ElectrumBackend.processBlockRequest
EbProcessBlockRequest ==
    /\ Serving /\ blockRequests # <<>>
    /\ \E w \in BagToSet(ebWorkers) : \E ok \in RequestOutcomes(w) :
        LET height == Head(blockRequests)
        IN IF ~ok
           THEN /\ RemoveNodeAndReturn(w, <<"block", height>>)
                /\ blockRequests' = Requeue(blockRequests, height)
                /\ UNCHANGED <<blockResponses, blockAnswered>>
           ELSE /\ Len(blockResponses) < ebChanSize
                /\ blockRequests' = Tail(blockRequests)
                /\ blockResponses' = Append(blockResponses, BlockResponse(height))
                /\ blockAnswered' = blockAnswered (+) SetToBag({height})
                /\ UNCHANGED <<poolVars, ebHistVars>>
    /\ UNCHANGED <<ebFrame, ebTransactions, blockAccepted, addrRequests, addrResponses,
                   txRequests, txResponses, doneCh, pc, histVars>>

\* findPeers() of the discovery goroutine meets a processRequests(node) on
\* the unbuffered peersRequests channel; processPeersRequest asks the node
\* for its peers and starts an addNode goroutine for each, or returns the
\* error, on which the goroutine returns and its node stays in the pool
EbProcessPeersRequest ==
    /\ Serving /\ discovery = "find"
    /\ \E w \in BagToSet(ebWorkers) : \E ok \in RpcOutcomes(w) :
        IF Cardinality(nodes) >= maxPeers
        THEN UNCHANGED <<toAdd, ebWorkers>>
        ELSE IF ok
        THEN toAdd' = toAdd \cup announced /\ UNCHANGED ebWorkers
        ELSE ebWorkers' = ebWorkers (-) SetToBag({w}) /\ UNCHANGED toAdd
    /\ discovery' = "wait"
    /\ UNCHANGED <<ebFrame, nodes, blacklistedNodes, ebTransactions, blockVars,
                   ebHistVars, addrRequests, addrResponses, txRequests, txResponses,
                   doneCh, pc, histVars>>

\* the discovery goroutine: case <-time.Tick(peerFetchInterval)
EbTick ==
    /\ Serving /\ discovery = "wait"
    /\ discovery' = "find"
    /\ UNCHANGED <<ebFrame, nodes, blacklistedNodes, ebWorkers, toAdd, ebTransactions,
                   blockVars, ebHistVars, addrRequests, addrResponses, txRequests,
                   txResponses, doneCh, pc, histVars>>

\* the discovery goroutine: case <-eb.doneCh: return
EbDiscoveryStop ==
    /\ Serving /\ discovery = "wait" /\ doneCh
    /\ discovery' = "stopped"
    /\ UNCHANGED <<ebFrame, nodes, blacklistedNodes, ebWorkers, toAdd, ebTransactions,
                   blockVars, ebHistVars, addrRequests, addrResponses, txRequests,
                   txResponses, doneCh, pc, histVars>>

\* an addNode that refuses only the idents that are pooled
RefusedIfPooled(p) == p \in nodes

\* addNode: existsGood ("already connected") or existsBad ("is known to be
\* bad"), decided before NewNode opens a connection
Refused(p) == p \in nodes \/ p \in blacklistedNodes

\* ElectrumBackend.addNode, run by a goroutine that addPeer started: an
\* ident that is pooled or blacklisted is refused before any connection is
\* made; a failed handshake step blacklists the ident; a passed handshake
\* pools the node and starts its processRequests
AddNode ==
    /\ Serving
    /\ \E p \in toAdd :
          /\ toAdd' = toAdd \ {p}
          /\ IF Refused(p)
             THEN UNCHANGED <<nodes, blacklistedNodes, ebWorkers, connects>>
             ELSE /\ connects' = connects (+) SetToBag({p})
                  /\ IF peerKind[p] = "refuses"
                     THEN /\ \E step \in HandshakeSteps :
                               blacklistedNodes' = blacklistedNodes \cup {p}
                          /\ UNCHANGED <<nodes, ebWorkers>>
                     ELSE /\ nodes' = nodes \cup {p}
                          /\ ebWorkers' = ebWorkers (+) SetToBag({Worker(p, TRUE)})
                          /\ UNCHANGED blacklistedNodes
    /\ UNCHANGED <<ebFrame, discovery, failed, requeued, ebTransactions, blockVars,
                   addrRequests, addrResponses, txRequests, txResponses, doneCh, pc,
                   histVars>>

\* ElectrumBackend.Finish: close(eb.doneCh), which panics on a channel that
\* is closed already, then removeAllNodes
EbFinish ==
    /\ Serving
    /\ IF doneCh
       THEN /\ pc' = "panic"
            /\ UNCHANGED <<doneCh, nodes, ebWorkers>>
       ELSE /\ doneCh' = TRUE
            /\ nodes' = {}
            /\ ebWorkers' = DisconnectAll(ebWorkers, nodes)
            /\ pc' = pc
    /\ UNCHANGED <<ebFrame, blacklistedNodes, toAdd, discovery, ebTransactions,
                   blockVars, ebHistVars, addrRequests, addrResponses, txRequests,
                   txResponses, histVars>>

NextElectrum ==
    \/ AddrRequest \/ TxRequest \/ BlockRequest
    \/ EbProcessAddrRequest \/ EbProcessTxRequest \/ EbProcessBlockRequest
    \/ EbProcessPeersRequest \/ EbTick \/ EbDiscoveryStop
    \/ AddNode \/ EbFinish

SpecElectrum == InitElectrum /\ [][NextElectrum]_vars

\* ------------------------------------------------------------------------
\* Finish and the goroutines of a backend
\* ------------------------------------------------------------------------
\* the goroutines of the backend in use that run a request-processing loop
\* and have not returned from it: the fixture loop, the btcd workers (no
\* statement of their loop returns), the recorder loop, the electrum
\* processRequests(node) goroutines and the peer-discovery goroutine
LoopsRunning ==
    (IF kind = "fixture" /\ ~stopped THEN 1 ELSE 0)
    + (IF Btcd THEN concurrency ELSE 0)
    + (IF Recording /\ ~rbStopped THEN 1 ELSE 0)
    + (IF kind = "electrum"
       THEN BagCardinality(ebWorkers) + (IF discovery # "stopped" THEN 1 ELSE 0)
       ELSE 0)

\* C12: after Finish() has been called on a backend (doneCh is closed),
\* every request-processing loop of that backend eventually returns
C12_LoopsReturnAfterFinish == doneCh ~> (LoopsRunning = 0)

\* C13: Finish() is idempotent: a call on a backend that was finished
\* already (doneCh is closed) changes nothing and does not abort
C13_FinishIdempotent == [][(EbFinish /\ doneCh) => UNCHANGED vars]_vars

\* ------------------------------------------------------------------------
\* ElectrumBackend: failed requests
\* ------------------------------------------------------------------------
\* the scheduling the Go runtime gives the pool: a request handler, a peers
\* request and a started addNode goroutine are not postponed for ever
FairnessElectrum ==
    /\ WF_vars(EbProcessAddrRequest)
    /\ WF_vars(EbProcessTxRequest)
    /\ WF_vars(EbProcessBlockRequest)
    /\ WF_vars(EbProcessPeersRequest)
    /\ WF_vars(AddNode)

\* pools of one peer that answers every request and flaky peers
InitElectrumFair ==
    /\ InitElectrum
    /\ peerKind \in [Peers -> {"good", "flaky"}]
    /\ Cardinality({p \in Peers : peerKind[p] = "good"}) = 1

SpecElectrumFair == InitElectrumFair /\ [][NextElectrum]_vars /\ FairnessElectrum

\* every accepted request was answered once, or is on its queue once
EbExactlyOnce ==
    /\ \A a \in EbAddresses :
          CopiesIn(String(a), addrAccepted)
             = CopiesIn(String(a), addrAnswered) + Count(addrRequests, a)
    /\ \A h \in EbHashes :
          CopiesIn(h, txAccepted) = CopiesIn(h, txAnswered) + Count(txRequests, h)
    /\ \A n \in EbHeights :
          CopiesIn(n, blockAccepted) = CopiesIn(n, blockAnswered) + Count(blockRequests, n)

EbAllAnswered == addrRequests = <<>> /\ txRequests = <<>> /\ blockRequests = <<>>

\* no node with an open connection is served, and none is being added
PoolDead ==
    /\ \A w \in BagToSet(ebWorkers) : ~w.open
    /\ toAdd = {}

\* a step in which a request failed: the peer of the failing worker is out
\* of the pool and no goroutine holds an open connection to it
FailureRemovesPeer ==
    (requeued' # requeued) =>
        \E p \in Peers :
            /\ nodes' = nodes \ {p}
            /\ CopiesIn(Worker(p, TRUE), ebWorkers') = 0
            /\ BagCardinality(ebWorkers') = BagCardinality(ebWorkers) - 1
            /\ BagCardinality(requeued') = BagCardinality(requeued) + 1

C15_FailedPeerBlacklisted ==
    /\ failed \subseteq blacklistedNodes
    /\ failed \cap nodes = {}

\* ------------------------------------------------------------------------
\* ElectrumBackend: the handshake
\* ------------------------------------------------------------------------
\* a peer that failed a handshake step is blacklisted, out of the pool and
\* not served, and one connection was opened to it
HandshakeFailureBlacklists ==
    /\ \A p \in Peers :
          (peerKind[p] = "refuses" /\ CopiesIn(p, connects) > 0) => p \in blacklistedNodes
    /\ \A p \in blacklistedNodes :
          /\ p \notin nodes
          /\ \A w \in BagToSet(ebWorkers) : w.id # p
          /\ CopiesIn(p, connects) = 1

\* an addNode for a blacklisted ident returns without a connection and
\* without a change to the pool, and the blacklist only grows
LaterAttemptRefused ==
    /\ blacklistedNodes \subseteq blacklistedNodes'
    /\ \A p \in blacklistedNodes :
          (p \in toAdd /\ p \notin toAdd') =>
              /\ connects' = connects
              /\ nodes' = nodes
              /\ ebWorkers' = ebWorkers

StoredHeightsKept ==
    \A h \in DOMAIN ebTransactions :
        h \in DOMAIN ebTransactions' /\ ebTransactions'[h] = ebTransactions[h]

\* a step that takes an address request and does not put it back has
\* cached the history some peer reported: heights that differ from stored
\* ones abort, heights that are stored already change nothing, new hashes
\* are stored with the reported height
CacheTxsStep ==
    (Len(addrRequests') < Len(addrRequests)) =>
        \E p \in Peers :
            LET txs == PeerHistory(p, Head(addrRequests))
                differs == \E k \in 1..Len(txs) :
                              /\ txs[k].Hash \in DOMAIN ebTransactions
                              /\ ebTransactions[txs[k].Hash] # txs[k].Height
                known == \A k \in 1..Len(txs) : txs[k].Hash \in DOMAIN ebTransactions
            IN IF differs
               THEN pc' = "panic" /\ ebTransactions' = ebTransactions
               ELSE /\ pc' = pc
                    /\ known => ebTransactions' = ebTransactions
                    /\ \A k \in 1..Len(txs) :
                          /\ txs[k].Hash \in DOMAIN ebTransactions'
                          /\ ebTransactions'[txs[k].Hash] = txs[k].Height

\* a step that takes a transaction request and does not put it back aborts
\* on a hash that was never cached, and answers with the stored height
\* otherwise
GetTxHeightStep ==
    (Len(txRequests') < Len(txRequests)) =>
        LET h == Head(txRequests)
        IN IF h \notin DOMAIN ebTransactions
           THEN pc' = "panic" /\ txResponses' = txResponses
           ELSE /\ pc' = pc
                /\ Len(txResponses') = Len(txResponses) + 1
                /\ txResponses'[Len(txResponses')].Hash = h
                /\ txResponses'[Len(txResponses')].Height = ebTransactions[h]

\* C17: the tx-hash -> height cache is write-once consistent: caching a hash
\* with the stored height changes nothing, caching it with another height
\* aborts, a stored height never changes, and getTxHeight of a hash that
\* was never cached aborts
C17_CacheWriteOnce == [][StoredHeightsKept /\ CacheTxsStep /\ GetTxHeightStep]_vars

\* the process aborted when an address was answered a second time by a
\* peer that reports other heights than the cache holds
C17_Witness ==
    /\ pc = "panic"
    /\ DOMAIN ebTransactions # {}
    /\ BagCardinality(addrAccepted) = 2
    /\ BagCardinality(addrAnswered) = 1
    /\ addrRequests = <<>>
    /\ \E p \in Peers : \E a \in EbAddresses :
          Inconsistent(ebTransactions, PeerHistory(p, a))

\* ------------------------------------------------------------------------
\* Blockfinder
\* ------------------------------------------------------------------------
\* Blockfinder.searchSync: the timestamps of the 11 blocks height-5 ..
\* height+5, sorted; the result is the element at index 5 (from 0)
Window(height) == (height - 5)..(height + 5)

\* a block time that is the block's own timestamp
searchSyncOwnTime(height) == timestamps[height]

searchSync(height) ==
    CHOOSE v \in {timestamps[i] : i \in Window(height)} :
        /\ Cardinality({i \in Window(height) : timestamps[i] < v}) <= 5
        /\ Cardinality({i \in Window(height) : timestamps[i] <= v}) >= 6

\* the chains of the model: time advances by one second at the heights in
\* steps, and the headers at heights 12 and 13 may carry each other's time
ChainTimes(steps, swapped) ==
    LET t == [h \in 0..ChainTip |-> Cardinality({k \in steps : k <= h})]
    IN IF swapped
       THEN [h \in 0..ChainTip |-> IF h = 12 THEN t[13] ELSE IF h = 13 THEN t[12] ELSE t[h]]
       ELSE t

\* what no Blockfinder step changes
bfFrame == <<cfgVars, accVars, swVars, chanVars, cachedTransactions, histVars, recVars,
             poolVars, ebTransactions, blockVars, ebHistVars, mainVars, timestamps,
             target, lockVars, capVars, connecting, rpcVars>>

InitBlockfinder ==
    /\ lookahead = 1
    /\ blockHeight = NumHashes - 1
    /\ kind = "fixture"
    /\ singleAddress = FALSE
    /\ addrIndex = LoadAddrIndex({})
    /\ txIndex = LoadTxIndex({})
    /\ InitAccounter
    /\ InitSendWork
    /\ InitBackend
    /\ scale = 1
    /\ NoRpc
    /\ NoElectrum
    /\ computeBalanceBlockHeight = blockHeight
    /\ chainHeight = ChainTip
    /\ \E steps \in SUBSET (10..(ChainTip - 11)) : \E swapped \in BOOLEAN :
          timestamps = ChainTimes(steps, swapped)
    /\ target \in 0..MaxTarget
    /\ min = 0
    /\ max = 0
    /\ minMedian = 0
    /\ maxMedian = 0
    /\ pc = "Search"
    /\ result = 0

\* Blockfinder.Search up to its loop
SearchStart ==
    /\ pc = "Search"
    /\ min' = 10
    /\ minMedian' = searchSync(10)
    /\ max' = chainHeight - 11
    /\ maxMedian' = searchSync(chainHeight - 11)
    /\ pc' = "loop"
    /\ UNCHANGED <<bfFrame, result>>

\* one round of: for max-min > 1 { ... }
SearchLoop ==
    /\ pc = "loop"
    /\ max - min > 1
    /\ LET avg == (max + min) \div 2
           avgTimestamp == searchSync(avg)
       IN IF avgTimestamp < minMedian \/ avgTimestamp > maxMedian
          THEN pc' = "panic" /\ UNCHANGED <<min, minMedian, max, maxMedian>>
          ELSE IF target = avgTimestamp
          THEN /\ min' = avg
               /\ minMedian' = avgTimestamp
               /\ pc' = "return"
               /\ UNCHANGED <<max, maxMedian>>
          ELSE IF target > avgTimestamp
          THEN /\ min' = avg
               /\ minMedian' = avgTimestamp
               /\ UNCHANGED <<max, maxMedian, pc>>
          ELSE /\ max' = avg
               /\ maxMedian' = avgTimestamp
               /\ UNCHANGED <<min, minMedian, pc>>
    /\ UNCHANGED <<bfFrame, result>>

\* the loop ends (its test fails, or the break) and Search returns min
SearchReturn ==
    /\ \/ pc = "loop" /\ ~(max - min > 1)
       \/ pc = "return"
    /\ result' = min
    /\ pc' = "done"
    /\ UNCHANGED <<bfFrame, min, minMedian, max, maxMedian>>

NextBlockfinder == SearchStart \/ SearchLoop \/ SearchReturn

SpecBlockfinder == InitBlockfinder /\ [][NextBlockfinder]_vars

\* the heights Search looks at
Searched == 10..(chainHeight - 11)

\* the 11-block centred median times do not decrease with the height
MediansNonDecreasing ==
    \A h \in Searched : h + 1 \in Searched => searchSync(h) <= searchSync(h + 1)

\* C18: on a chain whose centred median times are non-decreasing, when some
\* searched height has a median time of at most the target, Search returns
\* the greatest such height
C18_SearchFindsGreatest ==
    (/\ pc = "done"
     /\ MediansNonDecreasing
     /\ \E h \in Searched : searchSync(h) <= target)
    => /\ result \in Searched
       /\ searchSync(result) <= target
       /\ \A h \in Searched : searchSync(h) <= target => h <= result

\* ------------------------------------------------------------------------
\* main: doComputeBalance chooses the audit height
\* ------------------------------------------------------------------------
\* a bound without the + 1
HighestAllowedNoPlusOne(tip) == tip - minConfirmations

\* chainHeight - minConfirmations + 1.  The heights are uint32 in the code;
\* the model has chains of at least minConfirmations - 1 blocks, on which
\* the subtraction does not wrap
HighestAllowed(tip) == tip - minConfirmations + 1

\* the --block-height flag and the chain are free; the wallet and the
\* backend are those of the fetch model
InitMain ==
    /\ lookahead \in 1..MaxLookahead
    /\ blockHeight = 0
    /\ kind \in {"fixture", "btcd"}
    /\ singleAddress \in BOOLEAN
    /\ \E u0 \in SUBSET (0..MaxUsedIndex) :
          /\ Cardinality(u0) <= MaxUsedFair
          /\ singleAddress => u0 \subseteq {0}
          /\ addrIndex = LoadAddrIndex(UsedBy(u0))
    /\ txIndex = LoadTxIndex(Hashes)
    /\ lastAddresses = [c \in 0..1 |-> 0]
    /\ derivedAddrCount = 0
    /\ processedAddrCount = 0
    /\ seenTxCount = 0
    /\ processedTxCount = 0
    /\ addresses = <<>>
    /\ transactions = <<>>
    /\ indexes = [c \in 0..1 |-> 0]
    /\ swChange = 0
    /\ swLast = 0
    /\ swPc = "loop"
    /\ InitBackend
    /\ scale = 1
    /\ NoRpc
    /\ NoElectrum
    /\ NoSearch
    /\ computeBalanceBlockHeight \in 0..MaxFlag
    /\ chainHeight \in (minConfirmations + 1)..(minConfirmations + 2)
    /\ pc = "doComputeBalance"
    /\ result = 0

\* doComputeBalance from backend.ChainHeight() to accounter.New: a flag of
\* 0 becomes the highest allowed height, a flag above it is fatal;
\* accounter.New sets the block height, the lookahead frontier of both
\* streams, and ComputeBalance starts sendWork
DoComputeBalance ==
    /\ pc = "doComputeBalance"
    /\ LET height == IF computeBalanceBlockHeight = 0
                     THEN HighestAllowed(chainHeight)
                     ELSE computeBalanceBlockHeight
       IN /\ computeBalanceBlockHeight' = height
          /\ IF height > HighestAllowed(chainHeight)
             THEN /\ pc' = "panic"
                  /\ UNCHANGED <<blockHeight, lastAddresses, swLast>>
             ELSE /\ pc' = "recvWork"
                  /\ blockHeight' = height
                  /\ lastAddresses' = [c \in 0..1 |-> lookahead]
                  /\ swLast' = lookahead
    /\ UNCHANGED <<lookahead, singleAddress, kind, addrIndex, txIndex, derivedAddrCount,
                   processedAddrCount, seenTxCount, processedTxCount, addresses,
                   transactions, indexes, swChange, swPc, chanVars, cachedTransactions,
                   result, histVars, recVars, poolVars, ebTransactions, blockVars,
                   ebHistVars, bfVars, chainHeight, lockVars, capVars, connecting,
                   rpcVars>>

NextMain == DoComputeBalance \/ Next

SpecMain == InitMain /\ [][NextMain]_vars

\* nothing of the wallet has been scanned
NothingScanned ==
    /\ derivedAddrCount = 0
    /\ addresses = <<>>
    /\ addrAccepted = EmptyBag
    /\ addrRequests = <<>>

\* the step that chooses the audit height
HeightChosen ==
    (pc = "doComputeBalance" /\ pc' # pc) =>
        IF computeBalanceBlockHeight = 0
        THEN pc' = "recvWork" /\ blockHeight' = chainHeight - 6 + 1
        ELSE IF computeBalanceBlockHeight > chainHeight - 6 + 1
        THEN pc' = "panic"
        ELSE pc' = "recvWork" /\ blockHeight' = computeBalanceBlockHeight

TheAddress == NewAddress(0, 0)

PaidTo(h, a) ==
    LET vout == RawTx(h).vout
    IN SetSum({k \in 1..Len(vout) : vout[k].pkScript = Script(a)},
              [k \in 1..Len(vout) |-> vout[k].value])

OnceBalance ==
    LET hs == AddrLookup(TheAddress).TxHashes
        mined == {h \in {hs[k] : k \in 1..Len(hs)} : ChainTx(h).Height <= blockHeight}
    IN SetSum(mined, [h \in mined |-> PaidTo(h, TheAddress)])

SingleRun == singleAddress /\ lookahead = 1

DeriveIsConstant ==
    singleAddress =>
        \A c \in 0..1 : \A i \in 0..(MaxUsedIndex + MaxLookahead) : Derive(c, i) = TheAddress

CountedOnce ==
    (SingleRun /\ pc = "done") =>
        /\ result = OnceBalance
        /\ DOMAIN addresses = {Script(TheAddress)}
        /\ \A h \in DOMAIN transactions : h \in DOMAIN txIndex
        /\ CopiesIn(String(TheAddress), addrAccepted) = 2

TxResponseWithFinalHeight ==
    /\ txResponses # <<>>
    /\ processedTxCount' = processedTxCount + 1
    /\ KeepHeight(Head(txResponses).Height)

\* C21: a frontier is advanced only by a step that processes a transaction
\* response whose height is confirmed and not above the audit height; an
\* address response alone never moves it
C21_FrontierOnTxResponseOnly ==
    [][lastAddresses' # lastAddresses => TxResponseWithFinalHeight]_vars

\* ------------------------------------------------------------------------
\* The pipeline under load: a wallet whose one used address has a history of
\* up to MaxHistory transactions, all of them served by the backend, with
\* the transaction channels scaled down by PipelineScale (fixture: 2 slots
\* for requests and 2 for responses)
\* ------------------------------------------------------------------------
LongHistory(n) == [k \in 1..n |-> k]

InitPipeline ==
    /\ lookahead = 1
    /\ blockHeight = NumHashes - 1
    /\ kind \in {"fixture", "btcd"}
    /\ singleAddress = FALSE
    /\ \E n \in {1, MaxHistory} :
          /\ kind = "btcd" => n = 1
          /\ addrIndex = (String(NewAddress(0, 0)) :>
                             AddrResponse(NewAddress(0, 0), LongHistory(n)))
          /\ txIndex = LoadTxIndex(1..n)
    /\ InitAccounter
    /\ InitSendWork
    /\ InitBackend
    /\ scale = PipelineScale
    /\ NoRpc
    /\ NoElectrum
    /\ NoSearch
    /\ computeBalanceBlockHeight = blockHeight
    /\ chainHeight = blockHeight + minConfirmations - 1
    /\ pc = "recvWork"
    /\ result = 0

NextPipeline == Next \/ RecvAddrResume

SpecPipeline == InitPipeline /\ [][NextPipeline]_vars

\* recvWork waits in a.backend.TxRequest, a send on the full request channel
ReceiverBlocked ==
    /\ pc = "recvWork"
    /\ rwTodo # <<>>
    /\ Len(txRequests) >= TxChanSize

\* sendWork waits in a.backend.AddrRequest, a send on the full address channel
ProducerInAddrRequest ==
    /\ swPc = "send"
    /\ Len(addrRequests) >= AddrChanSize

\* a goroutine waits in a channel send
InChannelSend == Running /\ (ReceiverBlocked \/ ProducerInAddrRequest)

\* C22: no goroutine waits in a channel send or receive while it holds
\* countMu
C22_NoLockAcrossChannelOp == InChannelSend => countMu = "free"

\* every goroutine of processRequests holds a response that its response
\* channel has no room for
BackendBlocked ==
    /\ ~stopped
    /\ ~WorkerFree
    /\ \A r \in BagToSet(held) :
          IF r.type = "addr"
          THEN Len(addrResponses) >= AddrChanSize
          ELSE Len(txResponses) >= TxChanSize

\* sendWork waits for countMu, which recvWork holds, or in AddrRequest
ProducerBlocked ==
    \/ swPc = "loop" /\ countMu # "free"
    \/ ProducerInAddrRequest

Deadlocked == ReceiverBlocked /\ BackendBlocked /\ ProducerBlocked

\* C23: there is no state in which recvWork waits to enqueue a transaction
\* request, the backend waits to deliver a response and sendWork waits
\* behind recvWork's lock or a full address queue
C23_NoPipelineDeadlock == ~Deadlocked

\* ------------------------------------------------------------------------
\* Transaction requests
\* ------------------------------------------------------------------------
\* C24: within one run each transaction hash is handed to the backend's
\* TxRequest at most once, also when several address histories list it
C24_HashRequestedOnce == \A h \in Hashes : CopiesIn(h, txAccepted) <= 1

NegativeHeights == {h \in DOMAIN txIndex : txIndex[h].Height < 0}

\* C26 as stated: a run that fetched a transaction with negative height
\* aborts and returns no balance
C26_Original == NegativeHeights # {} => pc # "done"

\* processTransactions has removed every transaction with negative height
NegativeFiltered ==
    pc \in {"balance", "done", "panic"} => NegativeHeights \cap DOMAIN transactions = {}

\* C26: a fetched transaction with negative height is removed from the
\* ledger like an unmined one, and processTransactions goes on to the balance
\* without aborting
C26_NegativeHeightFiltered ==
    /\ []NegativeFiltered
    /\ [][pc = "process" => pc' = "balance"]_vars

\* a balance was returned for a ledger that had a transaction with negative
\* height paying an own address, next to a kept one
C26_Witness ==
    /\ pc = "done"
    /\ \E h \in NegativeHeights :
          \E k \in 1..Len(txIndex[h].Hex.vout) :
              txIndex[h].Hex.vout[k].pkScript \in DOMAIN addresses
    /\ DOMAIN transactions # {}
    /\ result > 0

\* ------------------------------------------------------------------------
\* The frontiers over a run
\* ------------------------------------------------------------------------
\* C27: in every state each of the two frontiers is at least the lookahead,
\* and no step lowers a frontier
C27_FrontierMonotone ==
    /\ [](\A c \in 0..1 : lastAddresses[c] >= lookahead)
    /\ [][\A c \in 0..1 : lastAddresses'[c] >= lastAddresses[c]]_vars

\* the frontier of the receive stream was extended by index 1, and the
\* response for index 0, which has history too, is the next one recvWork
\* takes
C27_Witness ==
    /\ pc = "recvWork"
    /\ lastAddresses[0] = 1 + lookahead
    /\ Script(NewAddress(0, 1)) \in DOMAIN addresses
    /\ addrResponses # <<>>
    /\ Head(addrResponses).Address = NewAddress(0, 0)
    /\ HasTransactions(Head(addrResponses))

\* ------------------------------------------------------------------------
\* The spender recorded on a spent output
\* ------------------------------------------------------------------------
\* the input slots of ledger transaction s that reference output k of h
InputsOn(s, h, k) ==
    {j \in 1..Len(transactions[s].vin) :
        transactions[s].vin[j] = [prevHash |-> h, index |-> k - 1]}

\* C28: after the balance is returned, every owned output marked spent names
\* as its spender a ledger transaction with exactly one input on that output
C28_SpentByIsSpender ==
    pc = "done" =>
        \A h \in DOMAIN transactions : \A k \in 1..Len(transactions[h].vout) :
            LET out == transactions[h].vout[k] IN
            (out.ours /\ out.spentBy # 0) =>
                /\ out.spentBy \in DOMAIN transactions
                /\ Cardinality(InputsOn(out.spentBy, h, k)) = 1

\* ------------------------------------------------------------------------
\* The sign of the balance
\* ------------------------------------------------------------------------
\* the state of balance() after its credit and debit loops, before the test
\* `balance < 0`
AfterDebits ==
    Debits([txs |-> transactions, balance |-> Credits(transactions), panic |-> FALSE],
           DOMAIN transactions)

ValuesNonNegative ==
    \A h \in DOMAIN transactions : \A k \in 1..Len(transactions[h].vout) :
        transactions[h].vout[k].value >= 0

\* C29: on a parsed ledger whose output values are non-negative, when the
\* debit loop passes its input-index and double-spend checks the balance it
\* leaves is at least 0, so the abort on a negative balance is not reached
C29_BalanceNonNegative ==
    (pc = "balance" /\ ValuesNonNegative /\ ~AfterDebits.panic) => AfterDebits.balance >= 0

\* a balance of exactly 0 was returned: every owned output of the ledger was
\* spent once
C29_Witness ==
    /\ pc = "done"
    /\ result = 0
    /\ \E h \in DOMAIN transactions : \E k \in 1..Len(transactions[h].vout) :
          transactions[h].vout[k].ours /\ transactions[h].vout[k].spentBy # 0

\* ------------------------------------------------------------------------
\* A fixture that lacks a transaction its histories list
\* ------------------------------------------------------------------------
\* hashes the fixture has no transaction for, and those of them the run has
\* requested (recvWork got a history that lists them)
MissingHashes == Hashes \ DOMAIN txIndex

MissingRequested ==
    kind = "fixture" /\ \E h \in MissingHashes : CopiesIn(h, txAccepted) > 0

\* the missing transaction is unanswered, the counters differ, and
\* ComputeBalance is still in recvWork
StuckOnMissing ==
    MissingRequested =>
        /\ \A h \in MissingHashes : CopiesIn(h, txAnswered) = 0
        /\ seenTxCount > processedTxCount
        /\ pc = "recvWork"

\* C30: once the run has requested a transaction the fixture lacks, the
\* request is never answered, seenTxCount stays above processedTxCount for
\* good, and ComputeBalance stays in recvWork: it neither returns nor aborts
C30_MissingTxNeverReturns ==
    /\ []StuckOnMissing
    /\ [][MissingRequested => MissingRequested']_vars

\* the run is stuck: the request for the missing transaction was dropped,
\* everything else was requested, answered and processed, and the counters
\* differ by the one dropped request
C30_Witness ==
    /\ MissingRequested
    /\ txRequests = <<>> /\ txResponses = <<>> /\ addrRequests = <<>> /\ addrResponses = <<>>
    /\ held = EmptyBag
    /\ derivedAddrCount = lastAddresses[0] + lastAddresses[1]
    /\ processedAddrCount = derivedAddrCount
    /\ seenTxCount = processedTxCount + 1
    /\ processedTxCount > 0


\* ------------------------------------------------------------------------
\* ElectrumBackend: the pool and the goroutines that serve it
\* ------------------------------------------------------------------------
\* peer p is served: a goroutine runs processRequests on the open
\* connection of the node pooled under p
Served(p) == CopiesIn(Worker(p, TRUE), ebWorkers) >= 1

\* C31: every peer in the pool passed the handshake and has a running
\* worker that serves requests; a peer whose worker returned after a failed
\* address, transaction, block or peer-list request is not in the pool
C31_PooledPeersServed ==
    \A p \in nodes : peerKind[p] # "refuses" /\ Served(p)

\* ------------------------------------------------------------------------
\* ElectrumBackend: the size of the pool
\* ------------------------------------------------------------------------
\* a backend whose discovery has pooled maxPeers - 1 peers, all of which
\* answer every request, and whose servers list two peers not pooled yet
InitElectrumCap ==
    /\ lookahead = 1
    /\ blockHeight = NumHashes - 1
    /\ kind = "electrum"
    /\ singleAddress = FALSE
    /\ addrIndex = LoadAddrIndex(UsedBy({0, 1}))
    /\ txIndex = LoadTxIndex(Hashes)
    /\ InitAccounter
    /\ InitSendWork
    /\ InitBackend
    /\ scale = 1
    /\ NoRpc
    /\ NoSearch
    /\ computeBalanceBlockHeight = blockHeight
    /\ chainHeight = blockHeight + minConfirmations - 1
    /\ pc = "serving"
    /\ result = 0
    /\ peerKind = [p \in 1..(maxPeers + 1) |-> "good"]
    /\ announced = {maxPeers, maxPeers + 1}
    /\ nodes = 1..(maxPeers - 1)
    /\ blacklistedNodes = {}
    /\ ebWorkers = SetToBag({Worker(p, TRUE) : p \in nodes})
    /\ toAdd = {}
    /\ discovery = "find"
    /\ ebTransactions = <<>>
    /\ blockRequests = <<>>
    /\ blockResponses = <<>>
    /\ blockAccepted = EmptyBag
    /\ blockAnswered = EmptyBag
    /\ connects = SetToBag(nodes)
    /\ failed = {}
    /\ requeued = EmptyBag

\* the backend up to the client's call of Finish
NextElectrumCap ==
    \/ AddrRequest \/ TxRequest \/ BlockRequest
    \/ EbProcessAddrRequest \/ EbProcessTxRequest \/ EbProcessBlockRequest
    \/ EbProcessPeersRequest \/ EbTick \/ AddNode

SpecElectrumCap == InitElectrumCap /\ [][NextElectrumCap]_vars

\* C32: the pool never holds more than maxPeers peers, also while several
\* discovered peers are added concurrently
C32_PoolWithinCap == Cardinality(nodes) <= maxPeers

\* ------------------------------------------------------------------------
\* The Accounter over the ElectrumBackend
\* ------------------------------------------------------------------------
\* ComputeBalance on a backend that NewElectrumBackend returned: the wallet
\* of InitElectrum, peers of every kind, the Accounter's goroutines started
InitAccounterElectrum ==
    /\ lookahead = 1
    /\ blockHeight = NumHashes - 1
    /\ kind = "electrum"
    /\ singleAddress = FALSE
    /\ addrIndex = LoadAddrIndex(UsedBy({0, 1}))
    /\ txIndex = LoadTxIndex(Hashes)
    /\ InitAccounter
    /\ InitSendWork
    /\ InitBackend
    /\ scale = 1
    /\ NoRpc
    /\ NoSearch
    /\ computeBalanceBlockHeight = blockHeight
    /\ chainHeight = blockHeight + minConfirmations - 1
    /\ pc = "recvWork"
    /\ result = 0
    /\ peerKind \in [Peers -> PeerKinds]
    /\ peerKind[1] # "refuses"
    /\ announced = Peers
    /\ nodes = {1}
    /\ blacklistedNodes = {}
    /\ ebWorkers = SetToBag({Worker(1, TRUE)})
    /\ toAdd = {}
    /\ discovery = "find"
    /\ ebTransactions = <<>>
    /\ blockRequests = <<>>
    /\ blockResponses = <<>>
    /\ blockAccepted = EmptyBag
    /\ blockAnswered = EmptyBag
    /\ connects = SetToBag({1})
    /\ failed = {}
    /\ requeued = EmptyBag

\* a.backend.Finish() on the ElectrumBackend, called by ComputeBalance when
\* the fetch has ended: close(eb.doneCh), removeAllNodes
FinishElectrum ==
    /\ pc = "finish"
    /\ doneCh' = TRUE
    /\ nodes' = {}
    /\ ebWorkers' = DisconnectAll(ebWorkers, nodes)
    /\ pc' = "process"
    /\ UNCHANGED <<ebFrame, blacklistedNodes, toAdd, discovery, ebTransactions,
                   blockVars, ebHistVars, addrRequests, addrResponses, txRequests,
                   txResponses, histVars>>

NextAccounterElectrum ==
    \/ SendDerive \/ SendRequest \/ SendNext
    \/ EbProcessAddrRequest \/ EbProcessTxRequest
    \/ EbProcessPeersRequest \/ EbTick \/ EbDiscoveryStop \/ AddNode
    \/ RecvAddr \/ RecvTx \/ Tick \/ FinishElectrum
    \/ ProcessTransactions \/ Balance

SpecAccounterElectrum == InitAccounterElectrum /\ [][NextAccounterElectrum]_vars

\* the hashes listed by the address responses on a channel
ListedIn(resps) == UNION {HashesOf(resps[k].TxHashes) : k \in 1..Len(resps)}

\* processTxRequest got the raw transaction and getTxHeight finds no height
\* for its hash: log.Panicf("transactions cache miss")
CacheMissAbort ==
    /\ EbProcessTxRequest
    /\ getTxHeight(Head(txRequests)) = {}
    /\ pc' = "panic"

\* C33: in a run of the Accounter over the ElectrumBackend, with peers that
\* fail and requests put back on their queue, the height of a hash is
\* cached before the address response that lists it is delivered: the
\* hashes of every address response sent or received and of every
\* transaction request are in the cache, and no step is the cache-miss abort
C33_HeightCachedBeforeRequested ==
    /\ [](/\ ListedIn(addrResponses) \subseteq DOMAIN ebTransactions
          /\ RecordedHashes \subseteq DOMAIN ebTransactions
          /\ HashesOf(txRequests) \subseteq DOMAIN ebTransactions)
    /\ [][~CacheMissAbort]_vars

\* a transaction request failed on a peer, was put back on its queue and was
\* answered by another peer, and the run went on to its balance
C33_Witness ==
    /\ pc = "done"
    /\ \E h \in Hashes :
          /\ CopiesIn(<<"tx", h>>, requeued) > 0
          /\ CopiesIn(h, txAnswered) > 0

\* ------------------------------------------------------------------------
\* electrum.Node and TCPTransport: one connection and the requests on it
\* ------------------------------------------------------------------------
\* what comes of a request at the other end of the connection: the write
\* fails, the read fails or times out, the line read is no JSON response,
\* or it is a response carrying an id and maybe an error
Replies ==
    {[kind |-> k, Id |-> 0, Error |-> FALSE] : k \in {"writeError", "readError", "garbage"}}
    \cup [kind : {"response"}, Id : 0..(MaxRpcs + 1), Error : BOOLEAN]

\* on a connection that was shut down the write fails
RepliesOn(c) ==
    IF c = "open" THEN Replies ELSE {[kind |-> "writeError", Id |-> 0, Error |-> FALSE]}

\* a SendMessage that does not compare the ids
SendMessageNoIdCheck(c, request, reply) ==
    IF c = "none" THEN [err |-> "ErrNodeShutdown", conn |-> c]
    ELSE IF c = "closed" \/ reply.kind \in {"writeError", "readError"}
    THEN [err |-> "ErrNetwork", conn |-> "closed"]
    ELSE IF reply.kind = "garbage" THEN [err |-> "ErrUnknown", conn |-> "closed"]
    ELSE IF reply.Error THEN [err |-> "ErrAPI", conn |-> c]
    ELSE [err |-> "nil", conn |-> c]

\* TCPTransport.SendMessage: the error it returns and the connection after
\* it; every error but the server's own (ErrAPI) shuts the connection down
SendMessage(c, request, reply) ==
    IF c = "none" THEN [err |-> "ErrNodeShutdown", conn |-> c]
    ELSE IF c = "closed" \/ reply.kind \in {"writeError", "readError"}
    THEN [err |-> "ErrNetwork", conn |-> "closed"]
    ELSE IF reply.kind = "garbage" THEN [err |-> "ErrUnknown", conn |-> "closed"]
    ELSE IF reply.Id # request.Id THEN [err |-> "ErrIdMismatch", conn |-> "closed"]
    ELSE IF reply.Error THEN [err |-> "ErrAPI", conn |-> c]
    ELSE [err |-> "nil", conn |-> c]

\* what no step of a Node changes
nodeFrame == <<cfgVars, accVars, swVars, chanVars, cachedTransactions, pc, result,
               histVars, recVars, lockVars, capVars, poolVars, ebTransactions,
               blockVars, ebHistVars, bfVars, mainVars, connecting>>

\* electrum.NewNode returned a node: its transport is connected, nextId is 0
InitNode ==
    /\ lookahead = 1
    /\ blockHeight = NumHashes - 1
    /\ kind = "electrum"
    /\ singleAddress = FALSE
    /\ addrIndex = LoadAddrIndex({})
    /\ txIndex = LoadTxIndex({})
    /\ InitAccounter
    /\ InitSendWork
    /\ InitBackend
    /\ scale = 1
    /\ NoElectrum
    /\ NoSearch
    /\ computeBalanceBlockHeight = blockHeight
    /\ chainHeight = blockHeight + minConfirmations - 1
    /\ pc = "serving"
    /\ result = 0
    /\ nextId = 0
    /\ conn = "open"
    /\ rpcLog = <<>>

\* Node.request: the message takes the next id, goes through SendMessage,
\* and the error, if any, is returned; the model follows MaxRpcs requests
NodeRequest ==
    /\ conn # "none" /\ nextId < MaxRpcs
    /\ \E reply \in RepliesOn(conn) :
          LET msg == [Id |-> nextId + 1]
              r == SendMessage(conn, msg, reply)
          IN /\ nextId' = msg.Id
             /\ conn' = r.conn
             /\ rpcLog' = Append(rpcLog, [Id |-> msg.Id, reply |-> reply, err |-> r.err])
    /\ UNCHANGED nodeFrame

\* Node.Disconnect, called by removeNode or removeAllNodes
NodeDisconnect ==
    /\ conn = "open"
    /\ conn' = "closed"
    /\ UNCHANGED <<nodeFrame, nextId, rpcLog>>

NextNode == NodeRequest \/ NodeDisconnect

SpecNode == InitNode /\ [][NextNode]_vars

\* C34: on a connection the request ids are strictly increasing; a response
\* whose id differs from the id of the request just sent shuts the
\* connection down and fails the request with ErrIdMismatch, and no request
\* returns without error on a response carrying another id
C34_IdsIncreaseMismatchRejected ==
    /\ \A k \in 1..(Len(rpcLog) - 1) : rpcLog[k].Id < rpcLog[k + 1].Id
    /\ \A k \in 1..Len(rpcLog) :
          LET e == rpcLog[k] IN
             /\ (e.reply.kind = "response" /\ e.reply.Id # e.Id) =>
                    (e.err = "ErrIdMismatch" /\ conn = "closed")
             /\ e.err = "nil" => (e.reply.kind = "response" /\ e.reply.Id = e.Id)

\* the first request was answered under its id, the second under another
\* id, and the third found the connection shut down
C34_Witness ==
    /\ Len(rpcLog) = 3
    /\ rpcLog[1].err = "nil"
    /\ rpcLog[2].err = "ErrIdMismatch" /\ rpcLog[2].reply.Id = 1
    /\ rpcLog[3].err = "ErrNetwork"

\* ------------------------------------------------------------------------
\* ElectrumBackend: peer discovery on an empty pool
\* ------------------------------------------------------------------------
\* the pool is empty, no processRequests goroutine is left to receive from
\* peersRequests and no addNode goroutine is left to start one, and the
\* discovery goroutine is inside findPeers(), in its send on the unbuffered
\* peersRequests channel: the send never goes through
DiscoveryBlocked ==
    /\ Serving
    /\ nodes = {} /\ ebWorkers = EmptyBag /\ toAdd = {}
    /\ discovery = "find"

\* C35: when the pool becomes empty while the backend runs, the discovery
\* goroutine stops with an error; it never waits for ever to hand a peers
\* request to a worker
C35_DiscoveryFailsOnEmptyPool == ~DiscoveryBlocked

\* ------------------------------------------------------------------------
\* Blockfinder on chains that keep the timestamp rule of the consensus
\* ------------------------------------------------------------------------
\* the median of the values of ts at the 11 indexes from..from+10
MedianOf11(ts, from) ==
    LET I == from..(from + 10)
    IN CHOOSE v \in {ts[i] : i \in I} :
          /\ Cardinality({i \in I : ts[i] < v}) <= 5
          /\ Cardinality({i \in I : ts[i] <= v}) >= 6

\* the timestamp rule: a block's time exceeds the median of the times of
\* the 11 blocks before it
ConsensusRule ==
    \A h \in 11..ChainTip : timestamps[h] > MedianOf11(timestamps, h - 11)

SeqMax(ts) == CHOOSE v \in {ts[i] : i \in 1..Len(ts)} : \A i \in 1..Len(ts) : ts[i] <= v

\* the chains of this part, block by block (ts[h + 1] is the time of block
\* h): a block is mined two seconds after the latest time on the chain,
\* but a block at a height in dips carries the median of the 11 blocks
\* before it plus bump
RECURSIVE ExtendChain(_, _, _)
ExtendChain(ts, dips, bump) ==
    IF Len(ts) = ChainTip + 1 THEN ts
    ELSE LET h == Len(ts)
             time == IF h = 0 THEN 0
                     ELSE IF h \in dips THEN MedianOf11(ts, h - 10) + bump
                     ELSE SeqMax(ts) + 2
         IN ExtendChain(Append(ts, time), dips, bump)

ChainWithDips(dips, bump) ==
    LET ts == ExtendChain(<<>>, dips, bump)
    IN [h \in 0..ChainTip |-> ts[h + 1]]

\* the miners of the blocks a..b set their clocks back as far as the rule
\* allows (bump 1), or further than it allows (bump -3); the target is the
\* median time of a searched height, a second after it, or before the chain
InitBlockfinderConsensus ==
    /\ lookahead = 1
    /\ blockHeight = NumHashes - 1
    /\ kind = "fixture"
    /\ singleAddress = FALSE
    /\ addrIndex = LoadAddrIndex({})
    /\ txIndex = LoadTxIndex({})
    /\ InitAccounter
    /\ InitSendWork
    /\ InitBackend
    /\ scale = 1
    /\ NoRpc
    /\ NoElectrum
    /\ computeBalanceBlockHeight = blockHeight
    /\ chainHeight = ChainTip
    /\ \E a \in 11..ChainTip : \E b \in (a - 1)..ChainTip : \E bump \in {1, -3} :
          timestamps = ChainWithDips(a..b, bump)
    /\ target \in {0} \cup {searchSync(h) + d : h \in 10..(ChainTip - 11), d \in {0, 1}}
    /\ min = 0
    /\ max = 0
    /\ minMedian = 0
    /\ maxMedian = 0
    /\ pc = "Search"
    /\ result = 0

SpecBlockfinderConsensus == InitBlockfinderConsensus /\ [][NextBlockfinder]_vars

Requested(c, i) == CopiesIn(String(NewAddress(c, i)), addrAccepted)

\* the indexes a frontier of the model can cover
FrontierIndexes == 0..(MaxUsedIndex + MaxLookahead)

\* sendWork is between a.derivedAddrCount++ and a.backend.AddrRequest(addr)
Deriving == IF swPc = "send" THEN 1 ELSE 0

\* C37: in every reachable state processedAddrCount <= derivedAddrCount <=
\* lastAddresses[0] + lastAddresses[1] and processedTxCount <= seenTxCount;
\* every derived address is requested, the positions requested in a stream
\* are the indexes below the stream's send index, each once, all below the
\* frontier, and when the fetch has ended they are all the positions below
\* the frontier; the send index of a stream moves up one position at a time
C37_CountersAndDerivationOrder ==
    /\ [](/\ processedAddrCount <= derivedAddrCount
          /\ derivedAddrCount <= lastAddresses[0] + lastAddresses[1]
          /\ processedTxCount <= seenTxCount
          /\ derivedAddrCount = BagCardinality(addrAccepted) + Deriving
          /\ BagCardinality(addrAccepted) = indexes[0] + indexes[1]
          /\ \A c \in 0..1 :
                /\ indexes[c] <= lastAddresses[c]
                /\ pc \in {"finish", "process", "balance", "done"} =>
                      indexes[c] = lastAddresses[c]
                /\ ~singleAddress =>
                      \A i \in FrontierIndexes :
                         Requested(c, i) = IF i < indexes[c] THEN 1 ELSE 0)
    /\ [][\A c \in 0..1 :
            \/ indexes'[c] = indexes[c]
            \/ /\ indexes'[c] = indexes[c] + 1
               /\ ~singleAddress =>
                     CopiesIn(String(NewAddress(c, indexes[c])), addrAccepted') = 1]_vars

\* the fetch ended with the receive frontier extended beyond the lookahead
\* and every position below both frontiers requested
C37_Witness ==
    /\ pc = "done"
    /\ ~singleAddress
    /\ lastAddresses[0] > lookahead + 1
    /\ \A c \in 0..1 : \A i \in 0..(lastAddresses[c] - 1) : Requested(c, i) = 1
    /\ derivedAddrCount = lastAddresses[0] + lastAddresses[1]
    /\ processedTxCount > 0

\* ------------------------------------------------------------------------
\* ElectrumBackend.addNode, step by step
\* ------------------------------------------------------------------------
\* addNode up to electrum.NewNode: the ident is looked up in eb.nodes and
\* eb.blacklistedNodes under the read lock, the lock is released, and an
\* ident found in neither gets a connection; the model follows up to
\* MaxConnecting addNode goroutines that are in their handshake at a time
AddNodeCheck ==
    /\ Serving /\ BagCardinality(connecting) < MaxConnecting
    /\ \E p \in toAdd :
          /\ toAdd' = toAdd \ {p}
          /\ IF Refused(p)
             THEN UNCHANGED <<connecting, connects>>
             ELSE /\ connecting' = connecting (+) SetToBag({p})
                  /\ connects' = connects (+) SetToBag({p})
    /\ UNCHANGED <<ebCore, nodes, blacklistedNodes, ebWorkers, discovery, failed,
                   requeued, ebTransactions, blockVars, addrRequests, addrResponses,
                   txRequests, txResponses, doneCh, pc, histVars>>

\* addNode from the handshake on: a failed step blacklists the ident; after
\* the last step eb.nodes[ident] = node under the write lock, whatever the
\* map holds under that ident by then, and go eb.processRequests(node)
AddNodeStore ==
    /\ Serving
    /\ \E p \in BagToSet(connecting) :
          /\ connecting' = connecting (-) SetToBag({p})
          /\ IF peerKind[p] = "refuses"
             THEN /\ \E step \in HandshakeSteps :
                       blacklistedNodes' = blacklistedNodes \cup {p}
                  /\ UNCHANGED <<nodes, ebWorkers>>
             ELSE /\ nodes' = nodes \cup {p}
                  /\ ebWorkers' = ebWorkers (+) SetToBag({Worker(p, TRUE)})
                  /\ UNCHANGED blacklistedNodes
    /\ UNCHANGED <<ebCore, toAdd, connects, discovery, failed, requeued, ebTransactions,
                   blockVars, addrRequests, addrResponses, txRequests, txResponses,
                   doneCh, pc, histVars>>

\* the backend up to the client's call of Finish, with the addNode
\* goroutines interleaved at their lock operations
NextElectrumRace ==
    \/ AddrRequest \/ TxRequest \/ BlockRequest
    \/ EbProcessAddrRequest \/ EbProcessTxRequest \/ EbProcessBlockRequest
    \/ EbProcessPeersRequest \/ EbTick
    \/ AddNodeCheck \/ AddNodeStore

SpecElectrumRace == InitElectrum /\ [][NextElectrumRace]_vars

\* the goroutines running processRequests on a node of ident p, and the
\* connections made to p that were not shut down
WorkersOf(p) == CopiesIn(Worker(p, TRUE), ebWorkers) + CopiesIn(Worker(p, FALSE), ebWorkers)
ConnectionsOf(p) == CopiesIn(Worker(p, TRUE), ebWorkers) + CopiesIn(p, connecting)

\* C38: for each peer identity there is at most one connection and at most
\* one worker at any time, also when addNode runs concurrently for that
\* identity
C38_OneNodePerIdent ==
    \A p \in DOMAIN peerKind : WorkersOf(p) <= 1 /\ ConnectionsOf(p) <= 1

====
